---- MODULE Spec2Model ----
(***************************************************************************)
(* Model of the PEMM Google Sheets setup scripts: the identifier encoder   *)
(* (slugify, indexToAlpha), setupSheet, setupSpreadsheet and the           *)
(* validation attachment step.                                             *)
(*                                                                         *)
(* A string is a sequence of characters.  A character is a one-character   *)
(* string, or a "U+xxxx" token standing for one non-ASCII code point.      *)
(***************************************************************************)
EXTENDS Integers, Sequences, FiniteSets, TLC

VARIABLES
    alpha,        \* indexToAlpha under test: [index, label, done]
    slug,         \* slugify under test: [input, output, again, done]
    schema,       \* the SpreadsheetSchema handed to setupSpreadsheet
    sheets,       \* the spreadsheet's sheets, in order
    namedRanges,  \* the spreadsheet's named ranges: name -> range
    protections,  \* the spreadsheet's range protections, in creation order
    backgrounds,  \* ranges carrying protectedBackgroundColor
    validations,  \* data validation rule in force per named range
    pc,           \* position of the running setupSpreadsheet call
    sheetIdx,     \* index of the sheet definition being processed
    fieldIdx,     \* index of the field being processed
    runs,         \* number of setupSpreadsheet calls started
    afterRun,     \* spreadsheet state observed at the end of each completed run
    spreadsheetEditors, \* the spreadsheet's editors, mirrored by a new protection
    unremovable,  \* the users the protection service refuses to remove
    initial,      \* the spreadsheet as it was before the first call
    thrown,       \* the call and the sheet definition at which a service call failed
    menu,         \* the menu handlers: active sheet, last outcome, alerts shown
    conc,         \* two overlapping setupSpreadsheet calls: their local state
    cell          \* a validated cell and the cell its regex rule's formula reads

vars == <<alpha, slug, schema, sheets, namedRanges, protections, backgrounds,
          validations, pc, sheetIdx, fieldIdx, runs, afterRun,
          spreadsheetEditors, unremovable, initial, thrown, menu, conc,
          cell>>

(***************************************************************************)
(* Bounds                                                                  *)
(***************************************************************************)
MaxIndex == 2000     \* largest column index handed to indexToAlpha
MaxColumn == 704     \* last column of a validated cell (ZZ is column 702)
MaxRow == 3          \* last row of a validated cell (data rows start at row 2)
MaxLen == 3          \* longest enumerated slugify input
MaxSheets == 2       \* longest enumerated schema (sheet definitions)
MaxRuns == 2         \* setupSpreadsheet calls per behaviour
MaxNegative == 30    \* indexToAlpha is handed indexes from -MaxNegative on
MaxMenuCalls == 2    \* menu items chosen per behaviour
WideFields == 680    \* fields of the widest sheet definition

(***************************************************************************)
(* Characters                                                              *)
(***************************************************************************)
UpperCase == <<"A","B","C","D","E","F","G","H","I","J","K","L","M",
               "N","O","P","Q","R","S","T","U","V","W","X","Y","Z">>

LowerCase == <<"a","b","c","d","e","f","g","h","i","j","k","l","m",
               "n","o","p","q","r","s","t","u","v","w","x","y","z">>

DigitChars == <<"0","1","2","3","4","5","6","7","8","9">>

KELVIN == "U+212A"     \* KELVIN SIGN, lowercases to "k"
IDOT == "U+0130"       \* LATIN CAPITAL I WITH DOT ABOVE, lowercases to "i" U+0307
COMBDOT == "U+0307"    \* COMBINING DOT ABOVE
NBSP == "U+00A0"       \* NO-BREAK SPACE, white space for \s
NUL == "U+0000"        \* the character String.fromCharCode gives for NaN

IsIn(seq, c) == \E i \in 1..Len(seq) : seq[i] = c

IndexIn(seq, c) == CHOOSE i \in 1..Len(seq) : seq[i] = c

(***************************************************************************)
(* slugify: name.toLowerCase().replace(/\s/g, '_').replace(/\W/g, '')      *)
(***************************************************************************)
toLowerCaseChar(c) ==
    IF IsIn(UpperCase, c) THEN <<LowerCase[IndexIn(UpperCase, c)]>>
    ELSE IF c = KELVIN THEN <<"k">>
    ELSE IF c = IDOT THEN <<"i", COMBDOT>>
    ELSE <<c>>

toLowerCase_Identity(s) == s

RECURSIVE toLowerCase(_)
toLowerCase(s) ==
    IF s = <<>> THEN <<>>
    ELSE CHOOSE r \in { toLowerCaseChar(c) \o toLowerCase(t) :
                          c \in {Head(s)}, t \in {Tail(s)} } : TRUE

\* /\s/
IsWhitespace(c) == c \in {" ", "\t", "\n", NBSP}

\* a replace without the g flag: only the first match is replaced
replaceWhitespace_FirstOnly(s) ==
    [i \in 1..Len(s) |->
        IF IsWhitespace(s[i]) /\ \A j \in 1..(i-1) : ~IsWhitespace(s[j])
        THEN "_" ELSE s[i]]

\* .replace(/\s/g, '_')
replaceWhitespace(s) ==
    [i \in 1..Len(s) |-> IF IsWhitespace(s[i]) THEN "_" ELSE s[i]]

\* /\w/ = [A-Za-z0-9_]
IsWordChar(c) ==
    IsIn(UpperCase, c) \/ IsIn(LowerCase, c) \/ IsIn(DigitChars, c) \/ c = "_"

\* .replace(/\W/g, '')
removeNonWord(s) == SelectSeq(s, IsWordChar)

slugify(name) == removeNonWord(replaceWhitespace(toLowerCase(name)))

(***************************************************************************)
(* indexToAlpha                                                            *)
(***************************************************************************)
Base26Digits == <<"0","1","2","3","4","5","6","7","8","9","a","b","c",
                  "d","e","f","g","h","i","j","k","l","m","n","o","p">>

\* the number NaN; every sum with it is NaN
NaN == -1000

Plus(a, b) == IF a = NaN \/ b = NaN THEN NaN ELSE a + b

\* Number.prototype.toString(26), split into its characters: the digits of
\* the magnitude, after a minus sign for a negative number
RECURSIVE toString26(_)
toString26(n) ==
    IF n < 0 THEN <<"-">> \o toString26(0 - n)
    ELSE IF n < 26 THEN <<Base26Digits[n + 1]>>
    ELSE toString26(n \div 26) \o <<Base26Digits[(n % 26) + 1]>>

\* parseInt(digit, 26) of one character: NaN when it is no digit
parseInt26(d) == IF IsIn(Base26Digits, d) THEN IndexIn(Base26Digits, d) - 1 ELSE NaN

\* String.fromCharCode for the codes of "A".."Z", and for NaN (code unit 0)
fromCharCode(code) == IF code = NaN THEN NUL ELSE UpperCase[code - 64]

indexToAlpha_LastDigit(index) == <<UpperCase[(index % 26) + 1]>>

indexToAlpha(index) ==
    LET str == toString26(index)
        digits == [i \in 1..Len(str) |-> parseInt26(str[i])]
        adjusted == IF Len(digits) > 1
                    THEN [digits EXCEPT ![1] = Plus(@, -1)]
                    ELSE digits
    IN  [i \in 1..Len(adjusted) |-> fromCharCode(Plus(65, adjusted[i]))]

(***************************************************************************)
(* The spreadsheet service, as the scripts use it                          *)
(***************************************************************************)
Me == "me@"          \* Session.getActiveUser()
Owner == "owner@"    \* the owner of the spreadsheet
Other == "other@"    \* any other editor
Users == {Me, Owner, Other}

BlankRow == [values |-> <<>>, notes |-> <<>>, bold |-> FALSE, center |-> FALSE]

\* spreadsheet.getSheetByName(name): the sheet's position, 0 for null
getSheetByName(ss, name) ==
    IF \E i \in 1..Len(ss) : ss[i].name = name
    THEN CHOOSE i \in 1..Len(ss) : ss[i].name = name
    ELSE 0

\* spreadsheet.insertSheet(name)
insertSheet(ss, name) ==
    Append(ss, [name |-> name, rows |-> <<>>, frozenRows |-> 0])

getOrInsertSheet_AlwaysInsert(ss, name) == insertSheet(ss, name)

\* let sheet = getSheetByName(name); if (sheet === null) sheet = insertSheet(name)
getOrInsertSheet(ss, name) ==
    IF getSheetByName(ss, name) = 0 THEN insertSheet(ss, name) ELSE ss

\* row 1 is blanked where it stands
insertRows_BlankFirst(sheet) ==
    IF sheet.rows = <<>> THEN [sheet EXCEPT !.rows = <<BlankRow>>]
    ELSE [sheet EXCEPT !.rows[1] = BlankRow]

\* sheet.insertRows(1): one blank row before row 1
insertRows(sheet) == [sheet EXCEPT !.rows = <<BlankRow>> \o @]

\* sheet.setFrozenRows(1)
setFrozenRows(sheet) == [sheet EXCEPT !.frozenRows = 1]

\* a range of the sheet follows its cells when a row is inserted above it
shiftRange(range, sheetName) ==
    IF range.sheet = sheetName
    THEN [range EXCEPT !.startRow = @ + 1]
    ELSE range

\* cells written over the left end of a row
overwrite(old, new) == new \o SubSeq(old, Len(new) + 1, Len(old))

\* getRange(1, 1, 1, n).setValues().setNotes().setTextStyle().setHorizontalAlignment()
setHeaderCells(sheet, names, notes) ==
    [sheet EXCEPT !.rows[1] = [values |-> overwrite(@.values, names),
                               notes |-> overwrite(@.notes, notes),
                               bold |-> TRUE,
                               center |-> TRUE]]

\* a named range is created when the name is new and kept otherwise
setNamedRange_CreateOnly(nr, name, range) ==
    [n \in (DOMAIN nr) \cup {name} |-> IF n \in DOMAIN nr THEN nr[n] ELSE range]

\* spreadsheet.setNamedRange(name, range): create or replace
setNamedRange(nr, name, range) ==
    [n \in (DOMAIN nr) \cup {name} |-> IF n = name THEN range ELSE nr[n]]

\* protection.addEditor(user)
addEditor(editors, user) == editors \cup {user}

\* protection.removeEditors(emails); the service refuses to remove the users
\* in keeps (Apps Script: neither the owner nor the current user)
removeEditors(editors, emails, keeps) == editors \ (emails \ keeps)

(***************************************************************************)
(* setupSheet                                                              *)
(***************************************************************************)
fieldNames(sheetSchema) ==
    [i \in 1..Len(sheetSchema.fields) |-> sheetSchema.fields[i].name]

fieldNotes_NamesAsNotes(sheetSchema) == fieldNames(sheetSchema)

\* f.notes ? f.notes : ''
fieldNotes(sheetSchema) ==
    [i \in 1..Len(sheetSchema.fields) |->
        IF sheetSchema.fields[i].hasNotes /\ sheetSchema.fields[i].notes # <<>>
        THEN sheetSchema.fields[i].notes
        ELSE <<>>]

\* `${slugify(schema.name)}__${slugify(field.name)}`
QualifiedName(sheetToken, fieldToken) == sheetToken \o <<"_", "_">> \o fieldToken

rangeNameOf(sheetName, fieldName) ==
    QualifiedName(slugify(sheetName), slugify(fieldName))

\* sheet.getRange(`'${schema.name}'!${alpha}2:${alpha}`)
dataRangeOf(sheetName, index) ==
    [sheet |-> sheetName, col |-> indexToAlpha(index), startRow |-> 2]

isProtected_Always(field) == TRUE

\* if (field.protected)
isProtected(field) == field.protected = "true"

\* protect(), getEditors(), addEditor(me), removeEditors(editorEmails)
protect(range, initialEditors, keeps) ==
    [sheet |-> range.sheet, col |-> range.col, startRow |-> range.startRow,
     editors |-> removeEditors(addEditor(initialEditors, Me), initialEditors, keeps)]

\* the header calls of setupSheet up to the c-th: insertRows, setFrozenRows,
\* setValues, setNotes, setTextStyle, setHorizontalAlignment
headerCalls(sheet, def, c) ==
    LET s1 == IF c >= 1 THEN insertRows(sheet) ELSE sheet
        s2 == IF c >= 2 THEN setFrozenRows(s1) ELSE s1
        s3 == IF c >= 3
              THEN [s2 EXCEPT !.rows[1].values = overwrite(@, fieldNames(def))]
              ELSE s2
        s4 == IF c >= 4
              THEN [s3 EXCEPT !.rows[1].notes = overwrite(@, fieldNotes(def))]
              ELSE s3
        s5 == IF c >= 5 THEN [s4 EXCEPT !.rows[1].bold = TRUE] ELSE s4
    IN  IF c >= 6 THEN [s5 EXCEPT !.rows[1].center = TRUE] ELSE s5

\* the protection of a protected field after the calls up to the c-th:
\* protect (2), addEditor (3), removeEditors (4)
protectCalls(range, initialEditors, keeps, c) ==
    [sheet |-> range.sheet, col |-> range.col, startRow |-> range.startRow,
     editors |-> IF c = 2 THEN initialEditors
                 ELSE IF c = 3 THEN addEditor(initialEditors, Me)
                 ELSE removeEditors(addEditor(initialEditors, Me),
                                    initialEditors, keeps)]

\* setupSheet(spreadsheet, sheet, schema) as a whole, sheet being the sheet
\* at position s: the spreadsheet it leaves
setupSheet(snap, s, def, initialEditors, keeps) ==
    LET n == Len(def.fields)
        names == SubSeq([k \in 1..n |->
                            rangeNameOf(def.name, def.fields[k].name)], 1, n)
        Registers(nm) == { k \in 1..n : names[k] = nm }
        LastOf(S) == CHOOSE k \in S : \A l \in S : l <= k
        protectedFields ==
            SelectSeq([k \in 1..n |-> k], LAMBDA k : isProtected(def.fields[k]))
    IN  [sheets |->
            [snap.sheets EXCEPT ![s] =
                setHeaderCells(setFrozenRows(insertRows(@)),
                               fieldNames(def), fieldNotes(def))],
         namedRanges |->
            [nm \in (DOMAIN snap.namedRanges) \cup {names[k] : k \in 1..n} |->
                IF Registers(nm) # {}
                THEN dataRangeOf(def.name, LastOf(Registers(nm)) - 1)
                ELSE shiftRange(snap.namedRanges[nm], snap.sheets[s].name)],
         protections |->
            [j \in 1..Len(snap.protections) |->
                shiftRange(snap.protections[j], snap.sheets[s].name)]
            \o [j \in 1..Len(protectedFields) |->
                   protect(dataRangeOf(def.name, protectedFields[j] - 1),
                           initialEditors, keeps)],
         backgrounds |->
            snap.backgrounds \cup
                { [sheet |-> def.name, col |-> indexToAlpha(k - 1)] :
                    k \in { l \in 1..n : isProtected(def.fields[l]) } }]

\* the sheet loop of setupSpreadsheet over the first k sheet definitions
RECURSIVE setupSheets(_, _, _, _, _)
setupSheets(snap, sc, k, initialEditors, keeps) ==
    IF k = 0 THEN snap
    ELSE LET before == setupSheets(snap, sc, k - 1, initialEditors, keeps)
             def == sc.sheets[k]
             found == [before EXCEPT
                          !.sheets = getOrInsertSheet(@, def.name)]
         IN  setupSheet(found, getSheetByName(found.sheets, def.name), def,
                        initialEditors, keeps)

\* the sheet tokens of the range names written out in validation.ts
T_manuscript == <<"m","a","n","u","s","c","r","i","p","t">>

T_collection == <<"c","o","l","l","e","c","t","i","o","n">>

T_canonical_story == <<"c","a","n","o","n","i","c","a","l","_","s","t","o","r","y">>

T_story_origin == <<"s","t","o","r","y","_","o","r","i","g","i","n">>

T_story_instance == <<"s","t","o","r","y","_","i","n","s","t","a","n","c","e">>

\* the named ranges looked up while the rules are built
BuildLookups ==
    << QualifiedName(T_manuscript,
           <<"m","a","n","u","s","c","r","i","p","t","_","n","a","m","e">>),
       QualifiedName(T_collection,
           <<"n","a","m","e">>),
       QualifiedName(T_canonical_story,
           <<"m","a","c","o","m","b","e","r","_","i","d">>),
       QualifiedName(T_canonical_story,
           <<"m","a","c","o","m","b","e","r","_","t","i","t","l","e">>),
       QualifiedName(T_story_origin,
           <<"n","a","m","e">>) >>

\* the calls that apply rules and formulas, in source order
ValidationSteps ==
    << [range |-> QualifiedName(T_manuscript,
            <<"m","a","n","u","s","c","r","i","p","t","_","n","a","m","e">>),
        rule |-> "none", formula |-> TRUE],
       [range |-> QualifiedName(T_manuscript,
            <<"c","o","l","l","e","c","t","i","o","n">>),
        rule |-> "collectionRule", formula |-> FALSE],
       [range |-> QualifiedName(T_manuscript,
            <<"o","r","i","g","i","n","a","l","_","c","o","l","l","e","c","t",
            "i","o","n">>),
        rule |-> "collectionRule", formula |-> FALSE],
       [range |-> QualifiedName(T_manuscript,
            <<"t","o","t","a","l","_","f","o","l","i","o","s">>),
        rule |-> "positiveIntegerRule", formula |-> FALSE],
       [range |-> QualifiedName(T_manuscript,
            <<"t","o","t","a","l","_","p","a","g","e","s">>),
        rule |-> "positiveIntegerRule", formula |-> FALSE],
       [range |-> QualifiedName(T_manuscript,
            <<"t","o","t","a","l","_","s","t","o","r","i","e","s">>),
        rule |-> "none", formula |-> TRUE],
       [range |-> QualifiedName(T_manuscript,
            <<"d","a","t","e","_","r","a","n","g","e","_","s","t","a","r",
            "t">>),
        rule |-> "fourDigitYearRule", formula |-> FALSE],
       [range |-> QualifiedName(T_manuscript,
            <<"d","a","t","e","_","r","a","n","g","e","_","e","n","d">>),
        rule |-> "fourDigitYearRule", formula |-> FALSE],
       [range |-> QualifiedName(T_manuscript,
            <<"m","a","c","o","m","b","e","r","_","m","a","n","u","s","c","r",
            "i","p","t">>),
        rule |-> "booleanRule", formula |-> FALSE],
       [range |-> QualifiedName(T_manuscript,
            <<"d","e","l","a","m","a","r","t","e","r","_","m","a","n","u","s",
            "c","r","i","p","t">>),
        rule |-> "booleanRule", formula |-> FALSE],
       [range |-> QualifiedName(T_manuscript,
            <<"c","o","l","u","m","n","s","_","p","e","r","_","p","a","g",
            "e">>),
        rule |-> "singleDigitRule", formula |-> FALSE],
       [range |-> QualifiedName(T_manuscript,
            <<"l","i","n","e","s","_","p","e","r","_","c","o","l","u","m",
            "n">>),
        rule |-> "twoDigitRule", formula |-> FALSE],
       [range |-> QualifiedName(T_manuscript,
            <<"c","h","a","r","a","c","t","e","r","s","_","p","e","r","_","l",
            "i","n","e">>),
        rule |-> "twoDigitRule", formula |-> FALSE],
       [range |-> QualifiedName(T_manuscript,
            <<"l","a","t","i","t","u","d","e">>),
        rule |-> "latitudeRule", formula |-> FALSE],
       [range |-> QualifiedName(T_manuscript,
            <<"l","o","n","g","i","t","u","d","e">>),
        rule |-> "longitudeRule", formula |-> FALSE],
       [range |-> QualifiedName(T_manuscript,
            <<"c","a","t","a","l","o","g","_","t","o","t","a","l","_","s","t",
            "o","r","i","e","s">>),
        rule |-> "positiveIntegerRule", formula |-> FALSE],
       [range |-> QualifiedName(T_canonical_story,
            <<"o","r","i","g","i","n">>),
        rule |-> "storyOriginRule", formula |-> FALSE],
       [range |-> QualifiedName(T_canonical_story,
            <<"m","a","c","o","m","b","e","r","_","i","d">>),
        rule |-> "macomberIDRule", formula |-> FALSE],
       [range |-> QualifiedName(T_canonical_story,
            <<"c","s","m","_","n","u","m","b","e","r">>),
        rule |-> "csmNumberRule", formula |-> FALSE],
       [range |-> QualifiedName(T_canonical_story,
            <<"p","o","n","c","e","l","e","t","_","n","u","m","b","e","r">>),
        rule |-> "ponceletNumberRule", formula |-> FALSE],
       [range |-> QualifiedName(T_canonical_story,
            <<"c","l","a","v","i","s","_","i","d">>),
        rule |-> "clavisIdRule", formula |-> FALSE],
       [range |-> QualifiedName(T_story_instance,
            <<"m","a","n","u","s","c","r","i","p","t">>),
        rule |-> "manuscriptRule", formula |-> FALSE],
       [range |-> QualifiedName(T_story_instance,
            <<"c","a","n","o","n","i","c","a","l","_","s","t","o","r","y","_",
            "i","d">>),
        rule |-> "canonicalStoryRule", formula |-> FALSE],
       [range |-> QualifiedName(T_story_instance,
            <<"r","e","c","e","n","s","i","o","n","_","i","d">>),
        rule |-> "manuscriptRule", formula |-> FALSE],
       [range |-> QualifiedName(T_story_instance,
            <<"c","a","n","o","n","i","c","a","l","_","s","t","o","r","y","_",
            "t","i","t","l","e">>),
        rule |-> "none", formula |-> TRUE],
       [range |-> QualifiedName(T_story_instance,
            <<"f","o","l","i","o","_","s","t","a","r","t">>),
        rule |-> "folioRule", formula |-> FALSE],
       [range |-> QualifiedName(T_story_instance,
            <<"f","o","l","i","o","_","e","n","d">>),
        rule |-> "folioRule", formula |-> FALSE],
       [range |-> QualifiedName(T_story_instance,
            <<"c","o","l","u","m","n","_","s","t","a","r","t">>),
        rule |-> "positiveIntegerRule", formula |-> FALSE],
       [range |-> QualifiedName(T_story_instance,
            <<"l","i","n","e","_","s","t","a","r","t">>),
        rule |-> "positiveIntegerRule", formula |-> FALSE],
       [range |-> QualifiedName(T_story_instance,
            <<"c","o","l","u","m","n","_","e","n","d">>),
        rule |-> "positiveIntegerRule", formula |-> FALSE],
       [range |-> QualifiedName(T_story_instance,
            <<"l","i","n","e","_","e","n","d">>),
        rule |-> "positiveIntegerRule", formula |-> FALSE],
       [range |-> QualifiedName(T_story_instance,
            <<"l","i","n","e","_","e","n","d">>),
        rule |-> "confidenceScoreRule", formula |-> FALSE],
       [range |-> QualifiedName(T_story_instance,
            <<"c","a","n","o","n","i","c","a","l","_","i","n","c","i","p","i",
            "t">>),
        rule |-> "booleanRule", formula |-> FALSE],
       [range |-> QualifiedName(T_story_instance,
            <<"e","x","c","l","u","d","e","_","f","r","o","m","_","i","t","o",
            "o","l">>),
        rule |-> "booleanRule", formula |-> FALSE],
       [range |-> QualifiedName(T_story_origin,
            <<"r","e","g","i","o","n">>),
        rule |-> "regionRule", formula |-> FALSE],
       [range |-> QualifiedName(T_collection,
            <<"n","a","m","e">>),
        rule |-> "none", formula |-> TRUE],
       [range |-> QualifiedName(T_collection,
            <<"l","a","t","i","t","u","d","e">>),
        rule |-> "latitudeRule", formula |-> FALSE],
       [range |-> QualifiedName(T_collection,
            <<"l","o","n","g","i","t","u","d","e">>),
        rule |-> "longitudeRule", formula |-> FALSE] >>

(***************************************************************************)
(* setupValidation                                                         *)
(***************************************************************************)
\* the setNumberFormat and setHorizontalAlignment calls chained to the rules
FormatCalls ==
    <<[range |-> QualifiedName(T_manuscript,
            <<"c","o","l","u","m","n","s","_","p","e","r","_","p","a",
            "g","e">>),
        numberFormat |-> "0", center |-> FALSE],
       [range |-> QualifiedName(T_manuscript,
            <<"l","i","n","e","s","_","p","e","r","_","c","o","l","u",
            "m","n">>),
        numberFormat |-> "#0", center |-> FALSE],
       [range |-> QualifiedName(T_manuscript,
            <<"c","h","a","r","a","c","t","e","r","s","_","p","e","r",
            "_","l","i","n","e">>),
        numberFormat |-> "#0", center |-> FALSE],
       [range |-> QualifiedName(T_manuscript,
            <<"l","a","t","i","t","u","d","e">>),
        numberFormat |-> "0.00000", center |-> FALSE],
       [range |-> QualifiedName(T_manuscript,
            <<"l","o","n","g","i","t","u","d","e">>),
        numberFormat |-> "0.00000", center |-> FALSE],
       [range |-> QualifiedName(T_canonical_story,
            <<"m","a","c","o","m","b","e","r","_","i","d">>),
        numberFormat |-> "@", center |-> TRUE],
       [range |-> QualifiedName(T_canonical_story,
            <<"c","s","m","_","n","u","m","b","e","r">>),
        numberFormat |-> "##0", center |-> TRUE],
       [range |-> QualifiedName(T_canonical_story,
            <<"p","o","n","c","e","l","e","t","_","n","u","m","b","e",
            "r">>),
        numberFormat |-> "###0", center |-> TRUE],
       [range |-> QualifiedName(T_canonical_story,
            <<"c","l","a","v","i","s","_","i","d">>),
        numberFormat |-> "@", center |-> TRUE],
       [range |-> QualifiedName(T_story_instance,
            <<"c","a","n","o","n","i","c","a","l","_","s","t","o","r",
            "y","_","i","d">>),
        numberFormat |-> "@", center |-> TRUE],
       [range |-> QualifiedName(T_collection,
            <<"l","a","t","i","t","u","d","e">>),
        numberFormat |-> "0.00000", center |-> FALSE],
       [range |-> QualifiedName(T_collection,
            <<"l","o","n","g","i","t","u","d","e">>),
        numberFormat |-> "0.00000", center |-> FALSE] >>

\* the calls run in order; getRangeByName gives null for a missing name and
\* the call on null throws: the number of calls made before that
callsMade(steps, nr) ==
    LET missing == { i \in 1..Len(steps) : steps[i].range \notin DOMAIN nr }
    IN  IF missing = {} THEN Len(steps)
        ELSE (CHOOSE i \in missing : \A j \in missing : i <= j) - 1

\* range.setDataValidation(rule) replaces the range's rule, range.setFormula
\* sets its formula: the rules and formulas in force after the first n calls
applySteps(steps, n, vals) ==
    LET touched == { steps[i].range : i \in 1..n }
        RuleCalls(name) ==
            { i \in 1..n : steps[i].range = name /\ steps[i].rule # "none" }
        LastOf(S) == CHOOSE i \in S : \A j \in S : j <= i
        Formats(name) ==
            { k \in 1..Len(FormatCalls) :
                FormatCalls[k].range = name /\ name \in touched }
        Old(name) == IF name \in DOMAIN vals THEN vals[name]
                     ELSE [rule |-> "none", formula |-> FALSE,
                           numberFormat |-> "", center |-> FALSE]
    IN  [name \in (DOMAIN vals) \cup touched |->
            [rule |-> IF RuleCalls(name) = {} THEN Old(name).rule
                      ELSE steps[LastOf(RuleCalls(name))].rule,
             formula |-> Old(name).formula
                         \/ \E i \in 1..n : steps[i].range = name /\ steps[i].formula,
             numberFormat |-> IF Formats(name) = {} THEN Old(name).numberFormat
                              ELSE FormatCalls[LastOf(Formats(name))].numberFormat,
             center |-> Old(name).center
                        \/ \E k \in Formats(name) : FormatCalls[k].center]]

\* the column number the service reads from a column label of A1 notation
RECURSIVE columnOfLabel(_)
columnOfLabel(label) ==
    IF label = <<>> THEN 0
    ELSE 26 * columnOfLabel(SubSeq(label, 1, Len(label) - 1))
           + IndexIn(UpperCase, label[Len(label)])

(***************************************************************************)
(* The regex rules: requireFormulaSatisfied('=regexmatch(to_text(          *)
(* index(A:ZZ, row(), column())), "<pattern>")')                           *)
(***************************************************************************)
\* ROW() and COLUMN() without argument, and a number written in the formula
RowOfCell == [kind |-> "row()", value |-> 0]
ColumnOfCell == [kind |-> "column()", value |-> 0]
Fixed(n) == [kind |-> "number", value |-> n]

\* the formula of a regex rule is bound to one cell (D2)
regexFormula_HardCoded(pattern) ==
    [reference |-> [first |-> <<"A">>, last |-> <<"Z","Z">>],
     row |-> Fixed(2), column |-> Fixed(4), pattern |-> pattern]

\* '=regexmatch(to_text(index(A:ZZ, row(), column())), "' + pattern + '")'
regexFormula(pattern) ==
    [reference |-> [first |-> <<"A">>, last |-> <<"Z","Z">>],
     row |-> RowOfCell, column |-> ColumnOfCell, pattern |-> pattern]

\* the six rules built with requireFormulaSatisfied, with the pattern the
\* string literal of the source denotes (\\d is \d, \d is d)
RegexRules ==
    [folioRule |-> regexFormula("^[1-9]+\\d*[rvab]?$"),
     fourDigitYearRule |-> regexFormula("^[1-9]\\d{3}$"),
     macomberIDRule |-> regexFormula("^[1-9]\\d*(-[A-F][1-2]?)?$"),
     clavisIdRule |-> regexFormula("^CAe [1-9]d{3}$"),
     singleDigitRule |-> regexFormula("^[1-9]$"),
     twoDigitRule |-> regexFormula("^[1-9]d?$")]

\* #REF!
RefError == [row |-> 0, col |-> 0]

\* the value of an argument when the formula is evaluated for the cell at
argValue(arg, at) ==
    IF arg.kind = "row()" THEN at.row
    ELSE IF arg.kind = "column()" THEN at.col
    ELSE arg.value

\* INDEX(reference, row, column) over whole columns first:last: the cell at
\* that row and column of the reference, #REF! outside the reference
index(reference, row, column) ==
    LET first == columnOfLabel(reference.first)
        width == columnOfLabel(reference.last) - first + 1
    IN  IF row < 1 \/ column < 1 \/ column > width THEN RefError
        ELSE [row |-> row, col |-> first + column - 1]

\* the cell whose text the rule's formula matches when it validates the
\* cell at
cellRead(formula, at) ==
    index(formula.reference, argValue(formula.row, at),
          argValue(formula.column, at))

CellIdle == [rule |-> "none", row |-> 0, col |-> 0, reads |-> RefError,
             done |-> FALSE]

\* the ranges the first n calls set a formula on
formulaRanges(steps, n, nr) ==
    { nr[steps[i].range] : i \in { j \in 1..n : steps[j].formula } }

\* range.setFormula(formula) on each of the ranges: every cell of the range
\* holds the formula afterwards (its text abbreviated to "=")
setFormula(ss, ranges) ==
    [s \in 1..Len(ss) |->
        [ss[s] EXCEPT !.rows =
            [r \in 1..Len(ss[s].rows) |->
                LET row == ss[s].rows[r]
                    cols == { columnOfLabel(g.col) :
                                g \in { h \in ranges : /\ h.sheet = ss[s].name
                                                       /\ h.startRow <= r } }
                    width == IF \E c \in cols : c > Len(row.values)
                             THEN CHOOSE c \in cols : \A d \in cols : d <= c
                             ELSE Len(row.values)
                IN  IF cols = {} THEN row
                    ELSE [row EXCEPT !.values =
                            [c \in 1..width |->
                                IF c \in cols THEN <<"=">>
                                ELSE IF c <= Len(row.values) THEN row.values[c]
                                ELSE <<>>]]]]]

\* setupValidation(spreadsheet) as a whole.  Whether building a rule on a
\* null range throws is the service's choice.
setupValidation(ss, nr, vals, nullRangeRejected) ==
    LET missing == \E i \in 1..Len(BuildLookups) : BuildLookups[i] \notin DOMAIN nr
        made == callsMade(ValidationSteps, nr)
    IN  IF missing /\ nullRangeRejected
        THEN [sheets |-> ss, validations |-> vals, completed |-> FALSE]
        ELSE [sheets |-> setFormula(ss, formulaRanges(ValidationSteps, made, nr)),
              validations |-> applySteps(ValidationSteps, made, vals),
              completed |-> made = Len(ValidationSteps)]

(***************************************************************************)
(* Schemas handed to setupSpreadsheet                                      *)
(***************************************************************************)
Field(name, hasNotes, notes, protected) ==
    [name |-> name, hasNotes |-> hasNotes, notes |-> notes, protected |-> protected]

F_ID == Field(<<"I","D">>, FALSE, <<>>, "undefined")
F_id == Field(<<"i","d">>, TRUE, <<"n">>, "true")
F_uID == Field(<<"_","I","D">>, TRUE, <<>>, "false")
F_Title == Field(<<"T","i","t","l","e">>, TRUE, <<"h","i">>, "true")
F_ab == Field(<<"a"," ","b">>, FALSE, <<>>, "false")

SheetChoices ==
    { [name |-> <<"T">>, fields |-> <<F_ID, F_Title>>],
      [name |-> <<"T">>, fields |-> <<F_ID, F_id>>],
      [name |-> <<"T">>, fields |-> <<F_uID>>],
      [name |-> <<"t">>, fields |-> <<F_ID>>],
      [name |-> <<"T","_">>, fields |-> <<F_ID>>],
      [name |-> <<"U">>, fields |-> <<F_Title, F_ab>>] }

SmallSchemas ==
    { [title |-> <<"P">>, sheets |-> ss] :
        ss \in UNION { [1..n -> SheetChoices] : n \in 1..MaxSheets } }

\* every range name setupValidation looks up
AllLookups ==
    BuildLookups \o [i \in 1..Len(ValidationSteps) |-> ValidationSteps[i].range]

\* s without the later copies of its elements
Dedup(s) ==
    LET keep == { i \in 1..Len(s) : \A j \in 1..(i - 1) : s[j] # s[i] }
    IN  [k \in 1..Cardinality(keep) |->
            s[CHOOSE i \in keep : Cardinality({ j \in keep : j < i }) = k - 1]]

SepAt(n) ==
    CHOOSE i \in 1..(Len(n) - 1) :
        /\ n[i] = "_" /\ n[i + 1] = "_"
        /\ \A j \in 1..(i - 1) : ~(n[j] = "_" /\ n[j + 1] = "_")

SheetPart(n) == SubSeq(n, 1, SepAt(n) - 1)

FieldPart(n) == SubSeq(n, SepAt(n) + 2, Len(n))

\* a schema whose sheets and fields are named by the tokens setupValidation
\* looks up, so that setupValidation finds every range; the first field of
\* each sheet is protected
FullSheet(token) ==
    LET OfSheet(n) == SheetPart(n) = token
        names == Dedup(SelectSeq(AllLookups, OfSheet))
    IN  [name |-> token,
         fields |-> [i \in 1..Len(names) |->
                        Field(FieldPart(names[i]), FALSE, <<>>,
                              IF i = 1 THEN "true" ELSE "undefined")]]

FullSchema ==
    LET tokens == Dedup([i \in 1..Len(AllLookups) |-> SheetPart(AllLookups[i])])
    IN  [title |-> <<"P">>,
         sheets |-> [i \in 1..Len(tokens) |-> FullSheet(tokens[i])]]

\* FullSchema with one more field on its first sheet: the first field's name
\* with a capital initial
FullSchemaColliding ==
    LET first == FullSchema.sheets[1]
        f1 == first.fields[1].name
        cap == <<UpperCase[IndexIn(LowerCase, f1[1])]>> \o Tail(f1)
    IN  [FullSchema EXCEPT
            !.sheets[1].fields = Append(@, Field(cap, FALSE, <<>>, "undefined"))]

\* schema.json as shipped; the text of a field's notes is abbreviated to "n"
Shipped_StoryInstance ==
    [name |-> <<"S","t","o","r","y"," ","I","n","s","t","a","n","c","e">>,
     fields |-> <<
        Field(<<"M","a","n","u","s","c","r","i","p","t">>,
              TRUE, <<"n">>, "undefined"),
        Field(<<"C","a","n","o","n","i","c","a","l"," ","S","t","o","r",
              "y"," ","I","D">>,
              TRUE, <<"n">>, "undefined"),
        Field(<<"C","a","n","o","n","i","c","a","l"," ","S","t","o","r",
              "y"," ","T","i","t","l","e">>,
              TRUE, <<"n">>, "true"),
        Field(<<"F","o","l","i","o"," ","S","t","a","r","t">>,
              TRUE, <<"n">>, "undefined"),
        Field(<<"C","o","l","u","m","n"," ","S","t","a","r","t">>,
              TRUE, <<"n">>, "undefined"),
        Field(<<"L","i","n","e"," ","S","t","a","r","t">>,
              TRUE, <<"n">>, "undefined"),
        Field(<<"F","o","l","i","o"," ","E","n","d">>,
              TRUE, <<"n">>, "undefined"),
        Field(<<"C","o","l","u","m","n"," ","E","n","d">>,
              TRUE, <<"n">>, "undefined"),
        Field(<<"L","i","n","e"," ","E","n","d">>,
              TRUE, <<"n">>, "undefined"),
        Field(<<"M","i","r","a","c","l","e"," ","N","u","m","b","e",
              "r">>,
              TRUE, <<"n">>, "undefined"),
        Field(<<"N","u","m","b","e","r"," ","o","f"," ","P","a","i","n",
              "t","i","n","g","s">>,
              TRUE, <<"n">>, "undefined"),
        Field(<<"I","n","c","i","p","i","t">>,
              TRUE, <<"n">>, "undefined"),
        Field(<<"C","a","n","o","n","i","c","a","l"," ","I","n","c","i",
              "p","i","t">>,
              TRUE, <<"n">>, "undefined"),
        Field(<<"C","o","n","f","i","d","e","n","c","e"," ","S","c","o",
              "r","e">>,
              TRUE, <<"n">>, "undefined"),
        Field(<<"E","x","c","l","u","d","e"," ","f","r","o","m"," ","I",
              "T","o","o","l">>,
              TRUE, <<"n">>, "undefined"),
        Field(<<"N","o","t","e","s">>,
              TRUE, <<"n">>, "undefined") >>]

Shipped_CanonicalStory ==
    [name |-> <<"C","a","n","o","n","i","c","a","l"," ","S","t","o","r","y">>,
     fields |-> <<
        Field(<<"M","a","c","o","m","b","e","r"," ","I","D">>,
              FALSE, <<>>, "undefined"),
        Field(<<"M","a","c","o","m","b","e","r"," ","T","i","t","l",
              "e">>,
              FALSE, <<>>, "undefined"),
        Field(<<"O","r","i","g","i","n">>,
              FALSE, <<>>, "undefined"),
        Field(<<"P","o","n","c","e","l","e","t"," ","N","u","m","b","e",
              "r">>,
              FALSE, <<>>, "undefined"),
        Field(<<"H","a","m","b","u","r","g"," ","I","D">>,
              FALSE, <<>>, "undefined"),
        Field(<<"E","n","g","l","i","s","h"," ","T","r","a","n","s","l",
              "a","t","i","o","n">>,
              FALSE, <<>>, "undefined"),
        Field(<<"P","r","i","n","t"," ","V","e","r","s","i","o","n">>,
              FALSE, <<>>, "undefined"),
        Field(<<"N","o","t","e","s">>,
              FALSE, <<>>, "undefined"),
        Field(<<"M","a","c","o","m","b","e","r"," ","K","e","y","w","o",
              "r","d","s">>,
              FALSE, <<>>, "undefined") >>]

Shipped_Manuscript ==
    [name |-> <<"M","a","n","u","s","c","r","i","p","t">>,
     fields |-> <<
        Field(<<"M","a","n","u","s","c","r","i","p","t"," ","N","a","m",
              "e">>,
              FALSE, <<>>, "true"),
        Field(<<"I","D">>,
              FALSE, <<>>, "undefined"),
        Field(<<"T","i","t","l","e">>,
              FALSE, <<>>, "undefined"),
        Field(<<"C","o","l","l","e","c","t","i","o","n">>,
              FALSE, <<>>, "undefined"),
        Field(<<"O","r","i","g","i","n","a","l"," ","C","o","l","l","e",
              "c","t","i","o","n">>,
              FALSE, <<>>, "undefined"),
        Field(<<"T","o","t","a","l"," ","S","t","o","r","i","e","s">>,
              FALSE, <<>>, "true"),
        Field(<<"T","o","t","a","l"," ","F","o","l","i","o","s">>,
              FALSE, <<>>, "undefined"),
        Field(<<"T","o","t","a","l"," ","P","a","g","e","s">>,
              FALSE, <<>>, "undefined"),
        Field(<<"C","e","n","t","u","r","y">>,
              FALSE, <<>>, "undefined"),
        Field(<<"D","a","t","e"," ","R","a","n","g","e"," ","S","t","a",
              "r","t">>,
              FALSE, <<>>, "undefined"),
        Field(<<"D","a","t","e"," ","R","a","n","g","e"," ","E","n",
              "d">>,
              FALSE, <<>>, "undefined"),
        Field(<<"D","a","t","e"," ","N","o","t","e">>,
              FALSE, <<>>, "undefined"),
        Field(<<"P","r","o","v","e","n","a","n","c","e">>,
              FALSE, <<>>, "undefined"),
        Field(<<"L","i","n","k">>,
              FALSE, <<>>, "undefined"),
        Field(<<"N","o","t","e","s">>,
              FALSE, <<>>, "undefined") >>]

Shipped_Collection ==
    [name |-> <<"C","o","l","l","e","c","t","i","o","n">>,
     fields |-> <<
        Field(<<"N","a","m","e">>,
              FALSE, <<>>, "true"),
        Field(<<"C","o","l","l","e","c","t","i","o","n"," ","A","b","b",
              "r","e","v","i","a","t","i","o","n">>,
              FALSE, <<>>, "undefined"),
        Field(<<"I","n","s","t","i","t","u","t","i","o","n"," ","A","b",
              "b","r","e","v","i","a","t","i","o","n">>,
              FALSE, <<>>, "undefined"),
        Field(<<"C","o","l","l","e","c","t","i","o","n"," ","N","a","m",
              "e">>,
              FALSE, <<>>, "undefined"),
        Field(<<"I","n","s","t","i","t","u","t","i","o","n"," ","N","a",
              "m","e">>,
              FALSE, <<>>, "undefined"),
        Field(<<"C","o","u","n","t","r","y">>,
              FALSE, <<>>, "undefined"),
        Field(<<"C","i","t","y">>,
              FALSE, <<>>, "undefined"),
        Field(<<"L","a","t","i","t","u","d","e">>,
              FALSE, <<>>, "undefined"),
        Field(<<"L","o","n","g","i","t","u","d","e">>,
              FALSE, <<>>, "undefined"),
        Field(<<"S","o","u","r","c","e">>,
              FALSE, <<>>, "undefined"),
        Field(<<"N","o","t","e","s">>,
              FALSE, <<>>, "undefined") >>]

Shipped_StoryOrigin ==
    [name |-> <<"S","t","o","r","y"," ","O","r","i","g","i","n">>,
     fields |-> <<
        Field(<<"N","a","m","e">>,
              FALSE, <<>>, "undefined"),
        Field(<<"R","e","g","i","o","n">>,
              FALSE, <<>>, "undefined"),
        Field(<<"N","o","t","e","s">>,
              FALSE, <<>>, "undefined") >>]

ShippedSchema ==
    [title |-> <<"P","E","M","M"," ","D","a","t","a"," ","M","a","s","t",
               "e","r">>,
     sheets |-> <<Shipped_StoryInstance, Shipped_CanonicalStory, Shipped_Manuscript,
                  Shipped_Collection, Shipped_StoryOrigin>>]

\* a schema without a title
UntitledSchema ==
    [title |-> <<>>, sheets |-> <<[name |-> <<"U">>, fields |-> <<F_Title, F_ab>>]>>]

Schemas ==
    SmallSchemas
      \cup {FullSchema, FullSchemaColliding, UntitledSchema, ShippedSchema}

DataRow == [values |-> << <<"x">>, <<"y">> >>, notes |-> << <<>>, <<>> >>,
            bold |-> FALSE, center |-> FALSE]

\* the spreadsheet before the first call: empty, or holding the first sheet
\* already, with a row of imported data
InitialSheets(sc) ==
    { <<>>,
      << [name |-> sc.sheets[1].name, rows |-> <<DataRow>>, frozenRows |-> 0] >> }

(***************************************************************************)
(* setupSpreadsheet, one step per sheet look-up, header and field          *)
(***************************************************************************)
curSheet == schema.sheets[sheetIdx]

Snapshot ==
    [sheets |-> sheets, namedRanges |-> namedRanges,
     protections |-> protections, backgrounds |-> backgrounds]

\* no service call has failed
NoThrow == [run |-> 0, sheet |-> 0]

\* no menu handler has run
MenuIdle ==
    [item |-> "none", active |-> 0, def |-> 0, outcome |-> "none",
     logged |-> 0, alerts |-> 0, calls |-> 0]

\* no overlapping calls
ConcIdle == <<>>

ProgInit ==
    /\ schema \in Schemas
    /\ sheets \in InitialSheets(schema)
    /\ namedRanges = <<>>
    /\ protections = <<>>
    /\ backgrounds = {}
    /\ validations = <<>>
    /\ spreadsheetEditors \in SUBSET Users
    /\ unremovable \in {{}, {Me, Owner}}
    /\ pc = "idle"
    /\ sheetIdx = 1
    /\ fieldIdx = 1
    /\ runs = 0
    /\ afterRun = <<>>
    /\ initial = Snapshot
    /\ thrown = NoThrow
    /\ menu = MenuIdle
    /\ conc = ConcIdle

\* the state of the program while a pure function is exercised
ProgIdle ==
    /\ schema = [title |-> <<"P">>, sheets |-> <<>>]
    /\ sheets = <<>>
    /\ namedRanges = <<>>
    /\ protections = <<>>
    /\ backgrounds = {}
    /\ validations = <<>>
    /\ spreadsheetEditors = {Me}
    /\ unremovable = {}
    /\ pc = "idle"
    /\ sheetIdx = 1
    /\ fieldIdx = 1
    /\ runs = 0
    /\ afterRun = <<>>
    /\ initial = Snapshot
    /\ thrown = NoThrow
    /\ menu = MenuIdle
    /\ conc = ConcIdle

AlphaIdle == [index |-> 0, label |-> <<>>, error |-> "none", done |-> FALSE]

SlugIdle == [input |-> <<>>, output |-> <<>>, again |-> <<>>, done |-> FALSE]

Init == alpha = AlphaIdle /\ slug = SlugIdle /\ cell = CellIdle /\ ProgInit

\* a call of setupSpreadsheet(spreadsheet, schema) begins
StartSetupSpreadsheet ==
    /\ pc \in {"idle", "done", "failed"}
    /\ runs < MaxRuns
    /\ runs' = runs + 1
    /\ sheetIdx' = 1
    /\ fieldIdx' = 1
    /\ pc' = IF Len(schema.sheets) = 0 THEN "validation" ELSE "getSheet"
    /\ UNCHANGED <<cell, alpha, slug, schema, sheets, namedRanges, protections,
                   backgrounds, validations, spreadsheetEditors, unremovable,
                   afterRun, initial, thrown, menu, conc>>

\* spreadsheet.getSheetByName(name), insertSheet(name) if null
GetOrInsertSheet ==
    /\ pc = "getSheet"
    /\ sheets' = getOrInsertSheet(sheets, curSheet.name)
    /\ pc' = "header"
    /\ UNCHANGED <<cell, alpha, slug, schema, namedRanges, protections, backgrounds,
                   validations, spreadsheetEditors, unremovable, sheetIdx,
                   fieldIdx, runs, afterRun,
                   initial, thrown, menu, conc>>

\* where the call goes once the fields from position k on are handled
AfterField(k) ==
    IF k <= Len(curSheet.fields)
    THEN /\ pc' = "field" /\ fieldIdx' = k /\ sheetIdx' = sheetIdx
    ELSE /\ fieldIdx' = 1
         /\ IF sheetIdx < Len(schema.sheets)
            THEN pc' = "getSheet" /\ sheetIdx' = sheetIdx + 1
            ELSE pc' = "validation" /\ sheetIdx' = sheetIdx

\* setupSheet: insert the header row, freeze it, write the styled headers
SetupSheetHeader ==
    /\ pc = "header"
    /\ LET s == getSheetByName(sheets, curSheet.name)
       IN  sheets' = [sheets EXCEPT ![s] =
                setHeaderCells(setFrozenRows(insertRows(@)),
                               fieldNames(curSheet), fieldNotes(curSheet))]
    /\ namedRanges' = [n \in DOMAIN namedRanges |->
                          shiftRange(namedRanges[n], curSheet.name)]
    /\ protections' = [i \in 1..Len(protections) |->
                          shiftRange(protections[i], curSheet.name)]
    /\ AfterField(1)
    /\ UNCHANGED <<cell, alpha, slug, schema, backgrounds, validations,
                   spreadsheetEditors, unremovable, runs, afterRun,
                   initial, thrown, menu, conc>>

\* setupSheet: one pass of schema.fields.forEach
SetupSheetField ==
    /\ pc = "field"
    /\ \E field \in {curSheet.fields[fieldIdx]},
          dataRange \in {dataRangeOf(curSheet.name, fieldIdx - 1)},
          rangeName \in {rangeNameOf(curSheet.name,
                                      curSheet.fields[fieldIdx].name)} :
           /\ namedRanges' = setNamedRange(namedRanges, rangeName, dataRange)
           /\ IF isProtected(field)
              THEN /\ protections' = Append(protections,
                          protect(dataRange, spreadsheetEditors, unremovable))
                   /\ backgrounds' = backgrounds \cup
                          {[sheet |-> dataRange.sheet, col |-> dataRange.col]}
              ELSE UNCHANGED <<protections, backgrounds>>
    /\ AfterField(fieldIdx + 1)
    /\ UNCHANGED <<cell, alpha, slug, schema, sheets, validations,
                   spreadsheetEditors, unremovable, runs, afterRun,
                   initial, thrown, menu, conc>>

\* setupValidation waits for something that never comes
SetupValidation_Waits ==
    /\ pc = "validation"
    /\ UNCHANGED vars

\* setupValidation(spreadsheet), then return spreadsheet
SetupValidation ==
    /\ pc = "validation"
    /\ \E nullRangeRejected \in BOOLEAN :
        LET after == setupValidation(sheets, namedRanges, validations,
                                     nullRangeRejected)
        IN  /\ sheets' = after.sheets
            /\ validations' = after.validations
            /\ pc' = IF after.completed THEN "done" ELSE "failed"
            /\ afterRun' = IF after.completed
                           THEN Append(afterRun, [Snapshot EXCEPT
                                                    !.sheets = after.sheets])
                           ELSE afterRun
    /\ UNCHANGED <<cell, alpha, slug, schema, namedRanges, protections,
                   backgrounds, spreadsheetEditors, unremovable, sheetIdx,
                   fieldIdx, runs,
                   initial, thrown, menu, conc>>

\* the exception is caught where it is thrown and the loop goes on with the
\* next sheet definition
Fail_SkipSheet ==
    /\ thrown.run = 0
    /\ pc \in {"getSheet", "header", "field"}
    /\ thrown' = [run |-> runs, sheet |-> sheetIdx]
    /\ AfterField(Len(curSheet.fields) + 1)
    /\ UNCHANGED <<cell, alpha, slug, schema, sheets, namedRanges, protections,
                   backgrounds, validations, spreadsheetEditors, unremovable,
                   runs, afterRun, initial, menu, conc>>

\* the exception of the sheet loop is swallowed and setupSpreadsheet goes on
\* to setupValidation
Fail_ThenValidate ==
    /\ thrown.run = 0
    /\ pc \in {"getSheet", "header", "field"}
    /\ thrown' = [run |-> runs, sheet |-> sheetIdx]
    /\ pc' = "validation"
    /\ UNCHANGED <<cell, alpha, slug, schema, sheets, namedRanges, protections,
                   backgrounds, validations, spreadsheetEditors, unremovable,
                   sheetIdx, fieldIdx, runs, afterRun, initial, menu, conc>>

\* a service call of the sheet loop throws: the calls made before it in the
\* same step have taken effect, the exception leaves forEach and
\* setupSpreadsheet
Fail ==
    /\ thrown.run = 0
    /\ pc \in {"getSheet", "header", "field"}
    /\ thrown' = [run |-> runs, sheet |-> sheetIdx]
    /\ pc' = "failed"
    /\ \/ /\ pc = "getSheet"
          /\ UNCHANGED <<sheets, namedRanges, protections, backgrounds>>
       \/ /\ pc = "header"
          /\ \E c \in 0..5 :
                LET s == getSheetByName(sheets, curSheet.name)
                IN  /\ sheets' = [sheets EXCEPT
                                     ![s] = headerCalls(@, curSheet, c)]
                    /\ namedRanges' =
                          IF c = 0 THEN namedRanges
                          ELSE [n \in DOMAIN namedRanges |->
                                  shiftRange(namedRanges[n], curSheet.name)]
                    /\ protections' =
                          IF c = 0 THEN protections
                          ELSE [i \in 1..Len(protections) |->
                                  shiftRange(protections[i], curSheet.name)]
          /\ UNCHANGED backgrounds
       \/ /\ pc = "field"
          /\ LET field == curSheet.fields[fieldIdx]
                 dataRange == dataRangeOf(curSheet.name, fieldIdx - 1)
                 rangeName == rangeNameOf(curSheet.name, field.name)
             IN  \E c \in 0..(IF isProtected(field) THEN 4 ELSE 1) :
                   /\ namedRanges' =
                         IF c = 0 THEN namedRanges
                         ELSE setNamedRange(namedRanges, rangeName, dataRange)
                   /\ protections' =
                         IF c <= 1 THEN protections
                         ELSE Append(protections,
                                     protectCalls(dataRange, spreadsheetEditors,
                                                  unremovable, c))
          /\ UNCHANGED <<sheets, backgrounds>>
    /\ UNCHANGED <<cell, alpha, slug, schema, validations, spreadsheetEditors,
                   unremovable, sheetIdx, fieldIdx, runs, afterRun, initial,
                   menu, conc>>

Next ==
    \/ StartSetupSpreadsheet
    \/ GetOrInsertSheet
    \/ SetupSheetHeader
    \/ SetupSheetField
    \/ SetupValidation

Spec == Init /\ [][Next]_vars

\* setupSpreadsheet with a service that may fail once
NextFail == Next \/ Fail

InitFail ==
    /\ Init
    /\ schema \in SmallSchemas
    /\ spreadsheetEditors = {Me, Owner}

SpecFail == InitFail /\ [][NextFail]_vars

\* setupSpreadsheet with a schema that provides the ranges setupValidation
\* looks up (so that rules are attached), a service call of the sheet loop
\* failing at most once
InitOrder ==
    /\ Init
    /\ schema \in {FullSchema, ShippedSchema}
    /\ spreadsheetEditors = {Me, Owner}
    /\ unremovable = {}

SpecOrder == InitOrder /\ [][NextFail]_vars

\* setupSpreadsheet runs synchronously: once called, each statement is
\* executed when the one before it has returned, and every service call
\* returns or throws
TermSchemas ==
    { sc \in SmallSchemas :
        \A i \in 1..Len(sc.sheets) :
            sc.sheets[i].name \in {<<"T">>, <<"U">>}
              /\ Len(sc.sheets[i].fields) = 2 }

InitTerm ==
    /\ Init
    /\ schema \in TermSchemas \cup {FullSchema}
    /\ sheets = <<>>
    /\ spreadsheetEditors = {Me, Owner}
    /\ unremovable = {}

SpecTerm ==
    /\ InitTerm
    /\ [][NextFail]_vars
    /\ WF_vars(GetOrInsertSheet \/ SetupSheetHeader \/ SetupSheetField
                   \/ SetupValidation)

(***************************************************************************)
(* The pure functions, applied to enumerated inputs                        *)
(***************************************************************************)
InitAlpha ==
    /\ alpha \in [index : (0 - MaxNegative)..MaxIndex, label : {<<>>},
                  error : {"none"}, done : {FALSE}]
    /\ slug = SlugIdle
    /\ cell = CellIdle
    /\ ProgIdle

IndexToAlpha ==
    /\ ~alpha.done
    /\ alpha' = [alpha EXCEPT !.label = indexToAlpha(alpha.index), !.done = TRUE]
    /\ UNCHANGED <<cell, slug, schema, sheets, namedRanges, protections,
                   backgrounds,
                   validations, spreadsheetEditors, unremovable, pc, sheetIdx,
                   fieldIdx, runs, afterRun,
                   initial, thrown, menu, conc>>

SpecAlpha == InitAlpha /\ [][IndexToAlpha]_vars

StoryOrigin == <<"S","t","o","r","y"," ","O","r","i","g","i","n">>

MacomberID == <<"M","a","c","o","m","b","e","r"," ","I","D">>

SlugAlphabet == {"A", "b", "1", "_", " ", "\t", "-", KELVIN, IDOT}

SlugInputs ==
    UNION { [1..n -> SlugAlphabet] : n \in 0..MaxLen } \cup {StoryOrigin, MacomberID}

InitSlug ==
    /\ alpha = AlphaIdle
    /\ slug \in [input : SlugInputs, output : {<<>>}, again : {<<>>}, done : {FALSE}]
    /\ cell = CellIdle
    /\ ProgIdle

Slugify ==
    /\ ~slug.done
    /\ slug' = [slug EXCEPT !.output = slugify(slug.input),
                            !.again = slugify(slugify(slug.input)),
                            !.done = TRUE]
    /\ UNCHANGED <<cell, alpha, schema, sheets, namedRanges, protections, backgrounds,
                   validations, spreadsheetEditors, unremovable, pc, sheetIdx,
                   fieldIdx, runs, afterRun,
                   initial, thrown, menu, conc>>

SpecSlug == InitSlug /\ [][Slugify]_vars

(***************************************************************************)
(* A regex rule validates one cell of the range it is attached to          *)
(***************************************************************************)
InitRule ==
    /\ alpha = AlphaIdle
    /\ slug = SlugIdle
    /\ cell \in [rule : DOMAIN RegexRules, row : 2..MaxRow, col : 1..MaxColumn,
                 reads : {RefError}, done : {FALSE}]
    /\ ProgIdle

ValidateCell ==
    /\ ~cell.done
    /\ cell' = [cell EXCEPT
                   !.reads = cellRead(RegexRules[cell.rule],
                                      [row |-> cell.row, col |-> cell.col]),
                   !.done = TRUE]
    /\ UNCHANGED <<alpha, slug, schema, sheets, namedRanges, protections,
                   backgrounds, validations, spreadsheetEditors, unremovable,
                   pc, sheetIdx, fieldIdx, runs, afterRun, initial, thrown,
                   menu, conc>>

SpecRule == InitRule /\ [][ValidateCell]_vars

(***************************************************************************)
(* Two overlapping calls of setupSpreadsheet, followed through their sheet *)
(* loops one service call group at a time                                  *)
(***************************************************************************)
Calls == {1, 2}

\* a call at the start of its sheet loop; sheet is the Sheet object the call
\* holds, as its position, 0 for null
CallStart ==
    [pc |-> "getSheet", sheetIdx |-> 1, fieldIdx |-> 1, sheet |-> 0,
     error |-> "none"]

InitConc ==
    /\ Init
    /\ schema \in SmallSchemas
    /\ spreadsheetEditors = {Me, Owner}

\* where call c goes once the fields from position k on are handled
ConcAfterField(c, k) ==
    IF k <= Len(schema.sheets[c.sheetIdx].fields)
    THEN [c EXCEPT !.pc = "field", !.fieldIdx = k]
    ELSE IF c.sheetIdx < Len(schema.sheets)
         THEN [c EXCEPT !.pc = "getSheet", !.fieldIdx = 1,
                        !.sheetIdx = @ + 1, !.sheet = 0]
         ELSE [c EXCEPT !.pc = "validation", !.fieldIdx = 1]

\* both calls begin
ConcStart ==
    /\ pc = "idle"
    /\ conc = ConcIdle
    /\ conc' = [p \in Calls |-> CallStart]
    /\ UNCHANGED <<cell, alpha, slug, schema, sheets, namedRanges, protections,
                   backgrounds, validations, spreadsheetEditors, unremovable,
                   pc, sheetIdx, fieldIdx, runs, afterRun, initial, thrown,
                   menu>>

\* let sheet = spreadsheet.getSheetByName(name)
ConcGetSheetByName(p) ==
    /\ conc # ConcIdle
    /\ conc[p].pc = "getSheet"
    /\ LET found == getSheetByName(sheets, schema.sheets[conc[p].sheetIdx].name)
       IN  conc' = [conc EXCEPT ![p].sheet = found,
                                ![p].pc = IF found = 0 THEN "insert" ELSE "header"]
    /\ UNCHANGED <<cell, alpha, slug, schema, sheets, namedRanges, protections,
                   backgrounds, validations, spreadsheetEditors, unremovable,
                   pc, sheetIdx, fieldIdx, runs, afterRun, initial, thrown,
                   menu>>

\* if (sheet === null) sheet = spreadsheet.insertSheet(name); the service
\* throws when a sheet of that name exists by now
ConcInsertSheet(p) ==
    /\ conc # ConcIdle
    /\ conc[p].pc = "insert"
    /\ LET name == schema.sheets[conc[p].sheetIdx].name
       IN  IF getSheetByName(sheets, name) # 0
           THEN /\ conc' = [conc EXCEPT ![p].pc = "failed",
                                        ![p].error = "SheetExists"]
                /\ UNCHANGED sheets
           ELSE /\ sheets' = insertSheet(sheets, name)
                /\ conc' = [conc EXCEPT ![p].pc = "header",
                                        ![p].sheet = Len(sheets) + 1]
    /\ UNCHANGED <<cell, alpha, slug, schema, namedRanges, protections,
                   backgrounds, validations, spreadsheetEditors, unremovable,
                   pc, sheetIdx, fieldIdx, runs, afterRun, initial, thrown,
                   menu>>

\* setupSheet of call p: the header row
ConcSetupSheetHeader(p) ==
    /\ conc # ConcIdle
    /\ conc[p].pc = "header"
    /\ LET def == schema.sheets[conc[p].sheetIdx]
       IN  /\ sheets' = [sheets EXCEPT ![conc[p].sheet] =
                           setHeaderCells(setFrozenRows(insertRows(@)),
                                          fieldNames(def), fieldNotes(def))]
           /\ namedRanges' = [n \in DOMAIN namedRanges |->
                                 shiftRange(namedRanges[n], def.name)]
           /\ protections' = [i \in 1..Len(protections) |->
                                 shiftRange(protections[i], def.name)]
    /\ conc' = [conc EXCEPT ![p] = ConcAfterField(@, 1)]
    /\ UNCHANGED <<cell, alpha, slug, schema, backgrounds, validations,
                   spreadsheetEditors, unremovable, pc, sheetIdx, fieldIdx,
                   runs, afterRun, initial, thrown, menu>>

\* setupSheet of call p: one pass of schema.fields.forEach
ConcSetupSheetField(p) ==
    /\ conc # ConcIdle
    /\ conc[p].pc = "field"
    /\ LET def == schema.sheets[conc[p].sheetIdx]
           field == def.fields[conc[p].fieldIdx]
           dataRange == dataRangeOf(def.name, conc[p].fieldIdx - 1)
           rangeName == rangeNameOf(def.name, field.name)
       IN  /\ namedRanges' = setNamedRange(namedRanges, rangeName, dataRange)
           /\ IF isProtected(field)
              THEN /\ protections' = Append(protections,
                          protect(dataRange, spreadsheetEditors, unremovable))
                   /\ backgrounds' = backgrounds \cup
                          {[sheet |-> dataRange.sheet, col |-> dataRange.col]}
              ELSE UNCHANGED <<protections, backgrounds>>
    /\ conc' = [conc EXCEPT ![p] = ConcAfterField(@, conc[p].fieldIdx + 1)]
    /\ UNCHANGED <<cell, alpha, slug, schema, sheets, validations,
                   spreadsheetEditors, unremovable, pc, sheetIdx, fieldIdx,
                   runs, afterRun, initial, thrown, menu>>

NextConc ==
    \/ ConcStart
    \/ \E p \in Calls :
          \/ ConcGetSheetByName(p)
          \/ ConcInsertSheet(p)
          \/ ConcSetupSheetHeader(p)
          \/ ConcSetupSheetField(p)

SpecConc == InitConc /\ [][NextConc]_vars

(***************************************************************************)
(* The menu handlers                                                       *)
(***************************************************************************)
\* a sheet definition with WideFields fields, the first one protected
WideSheet ==
    [name |-> <<"W">>,
     fields |-> [k \in 1..WideFields |->
                   Field(<<"c">> \o toString26(k), FALSE, <<>>,
                         IF k = 1 THEN "true" ELSE "undefined")]]

WideSchema == [title |-> <<"P">>, sheets |-> <<WideSheet>>]

MenuSchemas == SmallSchemas \cup {WideSchema, FullSchema, ShippedSchema}

EmptySheet(name) == [name |-> name, rows |-> <<>>, frozenRows |-> 0]

\* the spreadsheet before a menu item is chosen: the sheet every new
\* spreadsheet has, a sheet T unless the schema names one, and one sheet per
\* name of the schema, the first of them empty or holding a row of data
MenuSheets(sc) ==
    LET names == Dedup([i \in 1..Len(sc.sheets) |-> sc.sheets[i].name])
        own == [i \in 1..Len(names) |-> EmptySheet(names[i])]
        extra == IF \E i \in 1..Len(names) : names[i] = <<"T">>
                 THEN <<EmptySheet(<<"S","h","e","e","t","1">>)>>
                 ELSE <<EmptySheet(<<"S","h","e","e","t","1">>),
                        EmptySheet(<<"T">>)>>
    IN  { extra \o own,
          extra \o [own EXCEPT ![1].rows = <<DataRow>>] }

\* the spreadsheet before a menu item is chosen: fresh, or with every sheet
\* of the schema set up once already (schemas that name each sheet once)
MenuSpreadsheets(sc, initialEditors, keeps) ==
    LET Fresh(ss) == [sheets |-> ss, namedRanges |-> <<>>,
                      protections |-> <<>>, backgrounds |-> {}]
        repeats == \E i, j \in 1..Len(sc.sheets) :
                       i # j /\ sc.sheets[i].name = sc.sheets[j].name
    IN  { Fresh(ss) : ss \in MenuSheets(sc) }
          \cup IF sc = WideSchema \/ repeats THEN {}
               ELSE { setupSheets(Fresh(ss), sc, Len(sc.sheets),
                                  initialEditors, keeps) :
                        ss \in MenuSheets(sc) }

InitMenu ==
    /\ alpha = AlphaIdle
    /\ slug = SlugIdle
    /\ cell = CellIdle
    /\ schema \in MenuSchemas
    /\ spreadsheetEditors \in {{}, {Me, Owner}}
    /\ unremovable \in {{}, spreadsheetEditors}
    /\ \E start \in MenuSpreadsheets(schema, spreadsheetEditors, unremovable) :
          /\ sheets = start.sheets
          /\ namedRanges = start.namedRanges
          /\ protections = start.protections
          /\ backgrounds = start.backgrounds
    /\ validations = <<>>
    /\ pc = "idle"
    /\ sheetIdx = 1
    /\ fieldIdx = 1
    /\ runs = 0
    /\ afterRun = <<>>
    /\ initial = Snapshot
    /\ thrown = NoThrow
    /\ menu = MenuIdle
    /\ conc = ConcIdle

findSheetSchema_FirstDefinition(sc, sheetName) == 1

\* schema.sheets.find(({ name }) => name == sheetName): 0 for undefined
findSheetSchema(sc, sheetName) ==
    LET matching == { i \in 1..Len(sc.sheets) : sc.sheets[i].name = sheetName }
    IN  IF matching = {} THEN 0
        ELSE CHOOSE i \in matching : \A j \in matching : i <= j

\* the menu item 'Set up active sheet', a being the active sheet
SetupActiveSheet ==
    /\ pc = "idle"
    /\ menu.calls < MaxMenuCalls
    /\ \E a \in 1..Len(sheets) :
          LET found == findSheetSchema(schema, sheets[a].name)
          IN  IF found = 0
              THEN /\ menu' = [item |-> "setupActiveSheet",
                               active |-> a, def |-> 0, outcome |-> "alert",
                               logged |-> menu.logged + 1,
                               alerts |-> menu.alerts + 1,
                               calls |-> menu.calls + 1]
                   /\ UNCHANGED <<sheets, namedRanges, protections, backgrounds>>
              ELSE LET after == setupSheet(Snapshot, a, schema.sheets[found],
                                           spreadsheetEditors, unremovable)
                   IN  /\ menu' = [item |-> "setupActiveSheet",
                                   active |-> a, def |-> found,
                                   outcome |-> "setup",
                                   logged |-> menu.logged,
                                   alerts |-> menu.alerts,
                                   calls |-> menu.calls + 1]
                       /\ sheets' = after.sheets
                       /\ namedRanges' = after.namedRanges
                       /\ protections' = after.protections
                       /\ backgrounds' = after.backgrounds
    /\ UNCHANGED <<cell, alpha, slug, schema, validations, spreadsheetEditors,
                   unremovable, pc, sheetIdx, fieldIdx, runs, afterRun,
                   initial, thrown, conc>>

\* the menu item 'Set up validation'
SetupAllValidation ==
    /\ pc = "idle"
    /\ menu.calls < MaxMenuCalls
    /\ \E nullRangeRejected \in BOOLEAN :
          LET after == setupValidation(sheets, namedRanges, validations,
                                       nullRangeRejected)
          IN  /\ sheets' = after.sheets
              /\ validations' = after.validations
              /\ menu' = [menu EXCEPT
                             !.item = "setupAllValidation",
                             !.outcome = IF after.completed THEN "validated"
                                         ELSE "failed",
                             !.calls = @ + 1]
    /\ UNCHANGED <<cell, alpha, slug, schema, namedRanges, protections, backgrounds,
                   spreadsheetEditors, unremovable, pc, sheetIdx, fieldIdx,
                   runs, afterRun, initial, thrown, conc>>

NextMenu == SetupActiveSheet \/ SetupAllValidation

SpecMenu == InitMenu /\ [][NextMenu]_vars

(***************************************************************************)
(* Reference notions used to state the properties                          *)
(***************************************************************************)
\* the spreadsheet-style bijective base-26 label of a zero-based index
RECURSIVE BijectiveLabel(_)
BijectiveLabel(n) ==
    IF n < 26 THEN <<UpperCase[n + 1]>>
    ELSE BijectiveLabel((n \div 26) - 1) \o <<UpperCase[(n % 26) + 1]>>

\* [a-z0-9_]
SlugChars ==
    {LowerCase[i] : i \in 1..26} \cup {DigitChars[i] : i \in 1..10} \cup {"_"}

RECURSIVE Concat(_)
Concat(ss) == IF ss = <<>> THEN <<>> ELSE Head(ss) \o Concat(Tail(ss))

\* the lowercased name, every white-space character turned into one
\* underscore, every other character outside [a-z0-9_] dropped
SlugPerCharacter(name) ==
    LET low == toLowerCase(name)
    IN  Concat([i \in 1..Len(low) |->
                  IF IsWhitespace(low[i]) THEN <<"_">>
                  ELSE IF low[i] \in SlugChars THEN <<low[i]>>
                  ELSE <<>>])

\* the lowercased name, every maximal run of white space turned into one
\* underscore, every other character outside [a-z0-9_] dropped
SlugPerRun(name) ==
    LET low == toLowerCase(name)
    IN  Concat([i \in 1..Len(low) |->
                  IF IsWhitespace(low[i])
                  THEN IF i > 1 /\ IsWhitespace(low[i - 1]) THEN <<>> ELSE <<"_">>
                  ELSE IF low[i] \in SlugChars THEN <<low[i]>>
                  ELSE <<>>])

\* <<i, k>>: field k of sheet definition i
FieldPositions(sc) ==
    UNION { { <<i, k>> : k \in 1..Len(sc.sheets[i].fields) } :
              i \in 1..Len(sc.sheets) }

SheetNameAt(sc, p) == sc.sheets[p[1]].name

FieldAt(sc, p) == sc.sheets[p[1]].fields[p[2]]

UniqueSheetNames(sc) ==
    \A i, j \in 1..Len(sc.sheets) :
        i # j => sc.sheets[i].name # sc.sheets[j].name

UniqueFieldNames(sc) ==
    \A i \in 1..Len(sc.sheets) :
        \A k, l \in 1..Len(sc.sheets[i].fields) :
            k # l => sc.sheets[i].fields[k].name # sc.sheets[i].fields[l].name

ValidSchema(sc) == UniqueSheetNames(sc) /\ UniqueFieldNames(sc)

\* two fields of one sheet whose names slugify to the same token
FieldSlugCollision(sc) ==
    \E i \in 1..Len(sc.sheets) :
        \E k, l \in 1..Len(sc.sheets[i].fields) :
            /\ k # l
            /\ slugify(sc.sheets[i].fields[k].name)
                 = slugify(sc.sheets[i].fields[l].name)

\* the sheet loop of the running call has handled every sheet definition
AllSheetsSetUp == pc = "validation"

SheetNamed(ss, name) == ss[getSheetByName(ss, name)]

\* the rows of a sheet that hold the header cells of a sheet definition
HeaderRowsOf(sheet, def) ==
    { r \in 1..Len(sheet.rows) : sheet.rows[r].values = fieldNames(def) }

IsStyledRow(row) == row.bold /\ row.center

\* what the idempotence property compares between two runs
Observed(snap) ==
    [sheetCount |-> Len(snap.sheets),
     headers |-> [i \in 1..Len(snap.sheets) |->
                    SelectSeq(snap.sheets[i].rows, IsStyledRow)],
     namedRanges |-> snap.namedRanges,
     protections |-> snap.protections]

\* the names of a sheet definition's fields slugify to distinct tokens
UniqueFieldSlugs(def) ==
    Cardinality({ slugify(def.fields[k].name) : k \in 1..Len(def.fields) })
        = Len(def.fields)

\* the sheet definition the last 'Set up active sheet' ran setupSheet with
MenuDef == schema.sheets[menu.def]

\* the spreadsheet one whole pass of the sheet loop makes of the initial one
OnePass ==
    setupSheets(initial, schema, Len(schema.sheets), spreadsheetEditors,
                unremovable)

\* the stepwise sheet loop and setupSheet as a whole agree
StepwiseAgreesWithWhole ==
    (pc = "validation" /\ runs = 1) => Snapshot = OnePass

\* all header calls together are the header step
HeaderCallsAgree ==
    \A i \in 1..Len(schema.sheets) : \A j \in 1..Len(sheets) :
        headerCalls(sheets[j], schema.sheets[i], 6)
          = setHeaderCells(setFrozenRows(insertRows(sheets[j])),
                           fieldNames(schema.sheets[i]),
                           fieldNotes(schema.sheets[i]))

\* every step of setupSheet has been made for sheet definition i
FullySetUp(i) ==
    LET def == schema.sheets[i]
    IN  /\ getSheetByName(sheets, def.name) # 0
        /\ LET sheet == SheetNamed(sheets, def.name)
           IN  /\ Len(sheet.rows) >= 1
               /\ sheet.rows[1].values = [k \in 1..Len(def.fields) |->
                                            def.fields[k].name]
               /\ sheet.rows[1].bold
               /\ sheet.rows[1].center
               /\ sheet.frozenRows = 1
        /\ \A k \in 1..Len(def.fields) :
              /\ rangeNameOf(def.name, def.fields[k].name) \in DOMAIN namedRanges
              /\ def.fields[k].protected = "true" =>
                    /\ \E j \in 1..Len(protections) :
                          /\ protections[j].sheet = def.name
                          /\ protections[j].col = BijectiveLabel(k - 1)
                    /\ [sheet |-> def.name, col |-> BijectiveLabel(k - 1)]
                          \in backgrounds

\* no step has been made for sheet definition i
Untouched(i) ==
    LET name == schema.sheets[i].name
    IN  /\ \/ getSheetByName(sheets, name) = 0
           \/ /\ getSheetByName(initial.sheets, name) # 0
              /\ SheetNamed(sheets, name) = SheetNamed(initial.sheets, name)
        /\ \A n \in DOMAIN namedRanges : namedRanges[n].sheet # name
        /\ \A j \in 1..Len(protections) : protections[j].sheet # name
        /\ \A b \in backgrounds : b.sheet # name

ProtectionsOn(sheetName, col) ==
    { j \in 1..Len(protections) :
        protections[j].sheet = sheetName /\ protections[j].col = col }

(***************************************************************************)
(* Properties                                                              *)
(***************************************************************************)

\* C1: for every index 0..MaxIndex, indexToAlpha returns the bijective
\* base-26 label of the index (0 "A", 25 "Z", 26 "AA", 701 "ZZ", 702 "AAA").
C1_LabelIsBijective ==
    (alpha.done /\ alpha.index >= 0) => alpha.label = BijectiveLabel(alpha.index)

\* C2: the output of slugify holds only characters of [a-z0-9_], and
\* slugifying it again changes nothing.
C2_SlugCharsetAndIdempotent ==
    slug.done =>
        /\ \A i \in 1..Len(slug.output) : slug.output[i] \in SlugChars
        /\ slug.again = slug.output

C2_Witness ==
    /\ slug.done
    /\ slug.input = <<"A", " ", "-">>
    /\ slug.output = <<"a", "_">>
    /\ slug.again = <<"a", "_">>

\* C3 as stated: slugify(name) is the lowercased name with every maximal run
\* of white space replaced by a single underscore and every remaining
\* character outside [a-z0-9_] removed.
C3_WhitespaceRunsCollapsed ==
    slug.done => slug.output = SlugPerRun(slug.input)

\* C3 as amended: slugify(name) is the lowercased name with every white-space
\* character replaced by one underscore (a run of k gives k underscores) and
\* every remaining character outside [a-z0-9_] removed; "Story Origin" gives
\* "story_origin" and "Macomber ID" gives "macomber_id".
C3_EachWhitespaceOneUnderscore ==
    slug.done =>
        /\ slug.output = SlugPerCharacter(slug.input)
        /\ slug.input = StoryOrigin =>
               slug.output = <<"s","t","o","r","y","_","o","r","i","g","i","n">>
        /\ slug.input = MacomberID =>
               slug.output = <<"m","a","c","o","m","b","e","r","_","i","d">>

C3_Witness ==
    /\ slug.done
    /\ slug.input = <<"A", " ", "\t">>
    /\ slug.output = <<"a", "_", "_">>

\* C4: for a valid schema (unique sheet names, unique field names within a
\* sheet), once setupSpreadsheet has completed the spreadsheet holds exactly
\* one sheet per sheet definition and exactly one named range per field,
\* named slugify(sheet name) + "__" + slugify(field name).
C4_OneSheetAndOneRangePerEntry ==
    (pc = "done" /\ ValidSchema(schema)) =>
        /\ Len(sheets) = Len(schema.sheets)
        /\ \A i \in 1..Len(schema.sheets) :
               Cardinality({ j \in 1..Len(sheets) :
                               sheets[j].name = schema.sheets[i].name }) = 1
        /\ Cardinality(DOMAIN namedRanges) = Cardinality(FieldPositions(schema))
        /\ \A p \in FieldPositions(schema) :
               rangeNameOf(SheetNameAt(schema, p), FieldAt(schema, p).name)
                   \in DOMAIN namedRanges

\* C5: the sheet count, the header contents, the named ranges (names and
\* targets) and the protections after a second completed run of
\* setupSpreadsheet equal those after the first.
C5_SecondRunChangesNothing ==
    Len(afterRun) >= 2 => Observed(afterRun[2]) = Observed(afterRun[1])

\* C6: after any number of setupSheet runs on a sheet with the same schema
\* the sheet holds exactly one header row: row 1, frozen, holding the field
\* names.
C6_ExactlyOneHeaderRow ==
    (AllSheetsSetUp /\ UniqueSheetNames(schema)) =>
        \A i \in 1..Len(schema.sheets) :
            LET sheet == SheetNamed(sheets, schema.sheets[i].name)
            IN  /\ HeaderRowsOf(sheet, schema.sheets[i]) = {1}
                /\ sheet.frozenRows = 1

\* C7: a schema in which two fields of one sheet slugify to the same token
\* is rejected before any call to the spreadsheet service: no sheet is
\* created, no row is inserted, no named range is set.
C7_CollidingSchemaRejected ==
    FieldSlugCollision(schema) =>
        /\ sheets \in InitialSheets(schema)
        /\ DOMAIN namedRanges = {}
        /\ protections = <<>>

\* C8: for every protected field, after setupSheet every protection on the
\* field's data range has the acting user as its only editor, whatever the
\* editors of the new protection were, and the range carries the protected
\* background colour.
C8_ProtectedSoleEditor ==
    (AllSheetsSetUp /\ UniqueSheetNames(schema)) =>
        \A p \in FieldPositions(schema) :
            FieldAt(schema, p).protected = "true" =>
                LET name == SheetNameAt(schema, p)
                    col == BijectiveLabel(p[2] - 1)
                IN  /\ ProtectionsOn(name, col) # {}
                    /\ \A j \in ProtectionsOn(name, col) :
                           protections[j].editors = {Me}
                    /\ [sheet |-> name, col |-> col] \in backgrounds

\* C9: for every field whose protected flag is absent or false, the field's
\* data range has no protection and does not carry the protected background
\* colour, before, during and after setupSheet.
C9_UnprotectedUnrestricted ==
    UniqueSheetNames(schema) =>
        \A p \in FieldPositions(schema) :
            FieldAt(schema, p).protected # "true" =>
                LET name == SheetNameAt(schema, p)
                    col == BijectiveLabel(p[2] - 1)
                IN  /\ ProtectionsOn(name, col) = {}
                    /\ [sheet |-> name, col |-> col] \notin backgrounds

C9_Witness ==
    /\ AllSheetsSetUp
    /\ runs = 2
    /\ UniqueSheetNames(schema)
    /\ \E p, q \in FieldPositions(schema) :
          /\ p[1] = q[1]
          /\ FieldAt(schema, p).protected = "false"
          /\ FieldAt(schema, q).protected = "true"
          /\ ProtectionsOn(SheetNameAt(schema, q), BijectiveLabel(q[2] - 1)) # {}
          /\ ProtectionsOn(SheetNameAt(schema, p), BijectiveLabel(p[2] - 1)) = {}

\* C10: for a schema with unique sheet names and unique field names within
\* each sheet, two distinct (sheet, field) pairs never derive the same
\* named-range name.
C10_RangeNamesUnique ==
    ValidSchema(schema) =>
        \A p, q \in FieldPositions(schema) :
            p # q =>
                rangeNameOf(SheetNameAt(schema, p), FieldAt(schema, p).name)
                  # rangeNameOf(SheetNameAt(schema, q), FieldAt(schema, q).name)

\* C11: for every field at zero-based position i of a sheet definition, the
\* named range registered for it by setupSheet targets, on the field's own
\* sheet, the column whose label is the bijective base-26 label of i, from
\* row 2 to the open end.
C11_RangeTargetsOwnColumn ==
    (menu.outcome = "setup" /\ UniqueFieldSlugs(MenuDef)) =>
        \A k \in 1..Len(MenuDef.fields) :
            LET name == rangeNameOf(MenuDef.name, MenuDef.fields[k].name)
            IN  /\ name \in DOMAIN namedRanges
                /\ namedRanges[name] = [sheet |-> sheets[menu.active].name,
                                        col |-> BijectiveLabel(k - 1),
                                        startRow |-> 2]

\* C11 for the fields at positions 0..675, where indexToAlpha is right
C11_FirstColumns ==
    (menu.outcome = "setup" /\ UniqueFieldSlugs(MenuDef)) =>
        \A k \in 1..Len(MenuDef.fields) :
            k <= 676 =>
                LET name == rangeNameOf(MenuDef.name, MenuDef.fields[k].name)
                IN  /\ name \in DOMAIN namedRanges
                    /\ namedRanges[name] = [sheet |-> sheets[menu.active].name,
                                            col |-> BijectiveLabel(k - 1),
                                            startRow |-> 2]

\* C12: setupSpreadsheet handles the sheet definitions in schema order and,
\* for each, inserts a new sheet if and only if no sheet of that name exists
\* at that moment; an existing sheet of that name is reused, never
\* re-created.
C12_InsertOnlyIfAbsent ==
    [][/\ pc = "getSheet" =>
             /\ IF \E j \in 1..Len(sheets) : sheets[j].name = curSheet.name
                THEN sheets' = sheets
                ELSE /\ Len(sheets') = Len(sheets) + 1
                     /\ SubSeq(sheets', 1, Len(sheets)) = sheets
                     /\ sheets'[Len(sheets')].name = curSheet.name
                     /\ sheets'[Len(sheets')].rows = <<>>
             /\ pc' = "header"
             /\ sheetIdx' = sheetIdx
       /\ pc # "getSheet" => Len(sheets') = Len(sheets)
       /\ pc' = "getSheet" =>
             \/ pc \in {"idle", "done", "failed"} /\ sheetIdx' = 1
             \/ pc \in {"header", "field"} /\ sheetIdx' = sheetIdx + 1]_vars

C12_Witness ==
    /\ pc = "validation"
    /\ runs = 2
    /\ initial.sheets # <<>>
    /\ Len(schema.sheets) = 2
    /\ Len(sheets) = 2
    /\ sheets[1].name = schema.sheets[1].name
    /\ sheets[2].name = schema.sheets[2].name
    /\ Len(sheets[1].rows) = 3

\* C13: registering a field's named range creates or replaces: when a named
\* range of the derived name exists already, wherever it points, the step
\* does not fail and afterwards the name points at the field's column range;
\* no other named range changes.
C13_NamedRangeCreatedOrReplaced ==
    [][pc = "field" =>
          LET name == rangeNameOf(curSheet.name, curSheet.fields[fieldIdx].name)
          IN  /\ pc' # "failed"
              /\ name \in DOMAIN namedRanges'
              /\ namedRanges'[name] = [sheet |-> curSheet.name,
                                       col |-> BijectiveLabel(fieldIdx - 1),
                                       startRow |-> 2]
              /\ DOMAIN namedRanges' = (DOMAIN namedRanges) \cup {name}
              /\ \A n \in DOMAIN namedRanges :
                     n # name => namedRanges'[n] = namedRanges[n]]_vars

\* the name t___id, registered for sheet T, has been registered again for
\* sheet T_; the name t__id, registered for column A, again for column B
C13_Witness ==
    /\ pc = "validation"
    /\ \/ /\ Len(schema.sheets) = 2
          /\ schema.sheets[1] = [name |-> <<"T">>, fields |-> <<F_uID>>]
          /\ schema.sheets[2] = [name |-> <<"T", "_">>, fields |-> <<F_ID>>]
          /\ namedRanges[<<"t", "_", "_", "_", "i", "d">>].sheet = <<"T", "_">>
       \/ /\ schema.sheets[1] = [name |-> <<"T">>, fields |-> <<F_ID, F_id>>]
          /\ namedRanges[<<"t", "_", "_", "i", "d">>].col = <<"B">>

\* C14: indexToAlpha called with a negative index fails with an
\* InvalidArgument error and returns no label.
C14_NegativeIndexRejected ==
    (alpha.done /\ alpha.index < 0) =>
        /\ alpha.error = "InvalidArgument"
        /\ alpha.label = <<>>

\* what the code returns for -1 and for -27
C14_Returned ==
    alpha.done =>
        /\ alpha.index = -1 => alpha.label = <<NUL, "B">>
        /\ alpha.index = -27 => alpha.label = <<NUL, "B", "B">>

\* C15: a schema with duplicate sheet names or an empty title is rejected
\* before any call to the spreadsheet service: the spreadsheet stays as it
\* was.
C15_MalformedSchemaRejected ==
    (~UniqueSheetNames(schema) \/ schema.title = <<>>) =>
        /\ Snapshot = initial
        /\ validations = <<>>
        /\ pc \in {"idle", "failed"}

\* C16: when a service call fails while setupSpreadsheet handles the k-th
\* sheet definition, the failure ends the call (nothing is retried, nothing
\* is rolled back, the loop does not go on), every sheet definition before k
\* is fully set up and, in a first call, every sheet definition after k is
\* untouched.
C16_FailureStopsTheCall ==
    (thrown.run # 0 /\ thrown.run = runs) =>
        /\ pc = "failed"
        /\ sheetIdx = thrown.sheet
        /\ UniqueSheetNames(schema) =>
              /\ \A i \in 1..(thrown.sheet - 1) : FullySetUp(i)
              /\ runs = 1 =>
                    \A i \in (thrown.sheet + 1)..Len(schema.sheets) : Untouched(i)

C16_Witness ==
    /\ pc = "failed"
    /\ thrown = [run |-> 1, sheet |-> 2]
    /\ UniqueSheetNames(schema)
    /\ Len(schema.sheets) = MaxSheets
    /\ Len(sheets) = 2
    /\ Len(sheets[2].rows) = 1
    /\ ~sheets[2].rows[1].bold
    /\ FullySetUp(1)

\* C17: a call of setupSpreadsheet after a call that failed part-way leaves
\* the sheets, rows, named ranges and protections that one uninterrupted
\* call leaves on the same initial spreadsheet.
C17_RerunAfterFailureConverges ==
    (thrown.run = 1 /\ runs = 2 /\ pc = "validation") => Snapshot = OnePass

\* C18: two calls of setupSpreadsheet with the same schema on the same
\* spreadsheet, interleaved between service calls, both get through their
\* sheet loops without error and leave the spreadsheet one call leaves; the
\* look-up-then-insert of a sheet yields neither an error nor two sheets of
\* one name.
C18_OverlappingCallsConverge ==
    /\ \A i, j \in 1..Len(sheets) : sheets[i].name = sheets[j].name => i = j
    /\ conc # ConcIdle =>
          /\ \A p \in Calls : conc[p].error = "none"
          /\ (\A p \in Calls : conc[p].pc = "validation") => Snapshot = OnePass

\* C18, the look-up-then-insert alone: no call fails in it
C18_NoInsertError ==
    conc # ConcIdle => \A p \in Calls : conc[p].error = "none"

\* C18, the end state alone, when both calls got through
C18_SameAsOneCall ==
    (conc # ConcIdle /\ \A p \in Calls : conc[p].pc = "validation") =>
        Snapshot = OnePass

\* C21: after setupSheet has run for every sheet of the shipped schema, every
\* named range setupValidation looks up exists, so setupValidation
\* completes.
C21_ShippedSchemaProvidesEveryRange ==
    schema = ShippedSchema =>
        /\ pc \in {"validation", "done", "failed"} =>
              \A i \in 1..Len(AllLookups) : AllLookups[i] \in DOMAIN namedRanges
        /\ pc # "failed"

\* C19: after setupSheet, row 1 of the sheet holds for each position i the
\* name of the i-th field as value and the i-th field's notes as note, the
\* empty string when the field has no notes; row 1 is bold and centred and
\* the sheet's frozen-row count is 1.
C19_HeaderRowWritten ==
    menu.outcome = "setup" =>
        LET sheet == sheets[menu.active]
            n == Len(MenuDef.fields)
        IN  /\ Len(sheet.rows) >= 1
            /\ Len(sheet.rows[1].values) >= n
            /\ Len(sheet.rows[1].notes) >= n
            /\ \A i \in 1..n :
                   /\ sheet.rows[1].values[i] = MenuDef.fields[i].name
                   /\ sheet.rows[1].notes[i] =
                          IF MenuDef.fields[i].hasNotes
                          THEN MenuDef.fields[i].notes
                          ELSE <<>>
            /\ sheet.rows[1].bold
            /\ sheet.rows[1].center
            /\ sheet.frozenRows = 1

C19_Witness ==
    /\ menu.outcome = "setup"
    /\ menu.calls = 2
    /\ Len(sheets[menu.active].rows) = 3
    /\ sheets[menu.active].rows[1].values = <<F_Title.name, F_ab.name>>
    /\ sheets[menu.active].rows[1].notes = <<F_Title.notes, <<>> >>

\* C20: setupActiveSheet, invoked while the active sheet's name matches no
\* sheet of the schema, logs and alerts and changes nothing in the
\* spreadsheet; when the name matches, it runs setupSheet on the active
\* sheet with the schema of that name.
C20_ActiveSheetSetUpOnlyIfInSchema ==
    [][(menu'.calls = menu.calls + 1 /\ menu'.item = "setupActiveSheet") =>
          LET a == menu'.active
              known == \E i \in 1..Len(schema.sheets) :
                           schema.sheets[i].name = sheets[a].name
          IN  IF ~known
              THEN /\ menu'.outcome = "alert"
                   /\ menu'.logged = menu.logged + 1
                   /\ menu'.alerts = menu.alerts + 1
                   /\ UNCHANGED <<sheets, namedRanges, protections,
                                  backgrounds, validations>>
              ELSE /\ menu'.outcome = "setup"
                   /\ menu'.alerts = menu.alerts
                   /\ schema.sheets[menu'.def].name = sheets[a].name
                   /\ \A i \in 1..(menu'.def - 1) :
                          schema.sheets[i].name # sheets[a].name
                   /\ Len(sheets'[a].rows) = Len(sheets[a].rows) + 1
                   /\ sheets'[a].rows[1].values
                          = fieldNames(schema.sheets[menu'.def])
                   /\ \A b \in 1..Len(sheets) : b # a => sheets'[b] = sheets[b]
                   /\ \A k \in 1..Len(schema.sheets[menu'.def].fields) :
                          rangeNameOf(sheets[a].name,
                                      schema.sheets[menu'.def].fields[k].name)
                              \in DOMAIN namedRanges']_vars

C20_Witness ==
    /\ menu.calls = 2
    /\ menu.outcome = "alert"
    /\ menu.alerts = 1
    /\ sheets # initial.sheets
    /\ sheets[menu.active].name = <<"T">>
    /\ schema.sheets[1].name = <<"t">>

\* C29: after setupValidation the rule in force on story_instance__line_end
\* is the positive-integer rule, and the confidence-score rule is in force
\* on story_instance__confidence_score and on no other range.
C29_ConfidenceRuleOnItsOwnRange ==
    pc = "done" =>
        LET lineEnd == QualifiedName(T_story_instance,
                                     <<"l","i","n","e","_","e","n","d">>)
            confidenceScore ==
                QualifiedName(T_story_instance,
                    <<"c","o","n","f","i","d","e","n","c","e","_",
                      "s","c","o","r","e">>)
        IN  /\ lineEnd \in DOMAIN validations
            /\ validations[lineEnd].rule = "positiveIntegerRule"
            /\ \A n \in DOMAIN validations :
                   validations[n].rule = "confidenceScoreRule"
                       <=> n = confidenceScore

\* C25: after any number of setupSheet runs on a sheet, no cell holding
\* header text lies inside a named data range of that sheet: every named
\* range starts below every header row present in the sheet.
C25_RangesBelowEveryHeaderRow ==
    \A n \in DOMAIN namedRanges :
        LET s == getSheetByName(sheets, namedRanges[n].sheet)
        IN  s # 0 =>
              \A r \in 1..Len(sheets[s].rows) :
                  IsStyledRow(sheets[s].rows[r]) => r < namedRanges[n].startRow

\* C25 for a sheet set up once
C25_AfterOneRun ==
    \A n \in DOMAIN namedRanges :
        LET s == getSheetByName(sheets, namedRanges[n].sheet)
        IN  (s # 0 /\ Cardinality({ r \in 1..Len(sheets[s].rows) :
                                      IsStyledRow(sheets[s].rows[r]) }) <= 1) =>
              \A r \in 1..Len(sheets[s].rows) :
                  IsStyledRow(sheets[s].rows[r]) => r < namedRanges[n].startRow

\* C26: for every field position i of the sheet definition set up, the
\* header cell written for field i and the named range registered for
\* field i are in the same column, column i + 1 of the sheet.
C26_RangeUnderItsHeader ==
    (menu.outcome = "setup" /\ UniqueFieldSlugs(MenuDef)) =>
        \A k \in 1..Len(MenuDef.fields) :
            /\ sheets[menu.active].rows[1].values[k] = MenuDef.fields[k].name
            /\ columnOfLabel(
                   namedRanges[rangeNameOf(MenuDef.name,
                                           MenuDef.fields[k].name)].col) = k

\* C28: setupSheet on a sheet that holds rows already overwrites none of
\* them: every row present before the call is present afterwards with the
\* same cells, one row further down, and only the new row 1 receives the
\* header values.
C28_ExistingRowsMovedDownIntact ==
    [][(menu'.calls = menu.calls + 1 /\ menu'.outcome = "setup") =>
          LET a == menu'.active
          IN  /\ Len(sheets'[a].rows) = Len(sheets[a].rows) + 1
              /\ \A r \in 1..Len(sheets[a].rows) :
                     sheets'[a].rows[r + 1] = sheets[a].rows[r]
              /\ sheets'[a].rows[1].values
                     = fieldNames(schema.sheets[menu'.def])]_vars

C28_Witness ==
    /\ menu.outcome = "setup"
    /\ menu.calls = 1
    /\ Len(sheets[menu.active].rows) = 2
    /\ sheets[menu.active].rows[2] = DataRow
    /\ sheets[menu.active].rows[1].values = fieldNames(MenuDef)

\* C30: setupActiveSheet run on sheet S changes only S and the named ranges
\* derived from S's schema: the rows, frozen rows, protections and colours
\* of every other sheet and every named range on another sheet are
\* unchanged; setupAllValidation changes no header row, no named range and
\* no protection.
C30_OnlyActiveSheetChanges ==
    [][/\ (menu'.calls = menu.calls + 1 /\ menu'.outcome = "setup") =>
             LET S == sheets[menu'.active].name
                 Elsewhere(x) == x.sheet # S
             IN  /\ \A b \in 1..Len(sheets) :
                        b # menu'.active => sheets'[b] = sheets[b]
                 /\ Len(sheets') = Len(sheets)
                 /\ SelectSeq(protections', Elsewhere)
                        = SelectSeq(protections, Elsewhere)
                 /\ { b \in backgrounds' : Elsewhere(b) }
                        = { b \in backgrounds : Elsewhere(b) }
                 /\ \A n \in DOMAIN namedRanges :
                        Elsewhere(namedRanges[n]) =>
                            /\ n \in DOMAIN namedRanges'
                            /\ namedRanges'[n] = namedRanges[n]
                 /\ UNCHANGED validations
       /\ (menu'.calls = menu.calls + 1 /\ menu'.item = "setupAllValidation") =>
             /\ UNCHANGED <<namedRanges, protections, backgrounds>>
             /\ Len(sheets') = Len(sheets)
             /\ \A b \in 1..Len(sheets) :
                    /\ Len(sheets'[b].rows) = Len(sheets[b].rows)
                    /\ sheets'[b].frozenRows = sheets[b].frozenRows
                    /\ sheets[b].rows # <<>> =>
                           sheets'[b].rows[1] = sheets[b].rows[1]]_vars

\* C30 with "derived from another sheet" read as: not derived from S's
\* schema
C30_NamesOfOtherSchemasUnchanged ==
    [][(menu'.calls = menu.calls + 1 /\ menu'.outcome = "setup") =>
          LET def == schema.sheets[menu'.def]
              own == { rangeNameOf(def.name, def.fields[k].name) :
                         k \in 1..Len(def.fields) }
          IN  \A n \in DOMAIN namedRanges :
                  n \notin own =>
                      /\ n \in DOMAIN namedRanges'
                      /\ namedRanges'[n] = namedRanges[n]]_vars

\* the labels of the indices 0..MaxIndex, in order
LabelsUpToMaxIndex == [j \in 0..MaxIndex |-> indexToAlpha(j)]

\* C27: indexToAlpha is injective on the non-negative integers: the label
\* returned for an index is returned for no other non-negative index
C27_DistinctIndicesDistinctLabels ==
    (alpha.done /\ alpha.index >= 0) =>
        \A j \in 0..MaxIndex :
            j # alpha.index => LabelsUpToMaxIndex[j] # alpha.label

\* an index beyond the two-letter labels was labelled (where the labels
\* stop being the bijective ones), and so was one with a two-letter label
C27_Witness ==
    /\ alpha.done
    /\ alpha.index = 676
    /\ alpha.label = <<"A", "A", "A">>
    /\ LabelsUpToMaxIndex[702] # alpha.label

\* C27, on a sheet: the named ranges of the fields of a sheet definition with
\* pairwise distinct range names lie over pairwise distinct columns
C27_DistinctColumnsPerSheet ==
    (menu.outcome = "setup" /\ UniqueFieldSlugs(MenuDef)) =>
        Cardinality({ namedRanges[rangeNameOf(MenuDef.name,
                                              MenuDef.fields[k].name)].col :
                        k \in 1..Len(MenuDef.fields) })
            = Len(MenuDef.fields)

\* every field of every sheet definition has its named range
AllRangesRegistered ==
    \A i \in 1..Len(schema.sheets) :
        /\ getSheetByName(sheets, schema.sheets[i].name) # 0
        /\ \A k \in 1..Len(schema.sheets[i].fields) :
               rangeNameOf(schema.sheets[i].name,
                           schema.sheets[i].fields[k].name)
                   \in DOMAIN namedRanges

\* C24: setupSpreadsheet reaches setupValidation, and rules are attached,
\* only when the sheet loop of this call has passed its last sheet definition
\* with every named range registered and no failure in this call; a failed
\* sheet setup ends the call without setupValidation
C24_ValidationOnlyAfterAllSheets ==
    [][/\ (pc = "validation" \/ validations' # validations) =>
             /\ pc = "validation"
             /\ thrown.run # runs
             /\ sheetIdx = Len(schema.sheets)
             /\ AllRangesRegistered
       /\ (thrown'.run = runs /\ thrown.run # runs) =>
             /\ pc' = "failed"
             /\ UNCHANGED validations]_vars

\* a call failed in its sheet loop and ended without validation; the next
\* call set up every sheet and attached the rules
C24_Witness ==
    /\ runs = 2
    /\ thrown.run = 1
    /\ pc = "done"
    /\ validations # <<>>
    /\ Len(afterRun) = 1
    /\ AllRangesRegistered

\* C23: every call of setupSpreadsheet ends, with the spreadsheet returned
\* ("done") or with an error ("failed")
C23_SetupSpreadsheetTerminates ==
    (pc \in {"getSheet", "header", "field", "validation"})
        ~> (pc \in {"done", "failed"})

\* a call went through every sheet definition and returned the spreadsheet
C23_Witness ==
    /\ pc = "done"
    /\ runs = 1
    /\ Len(afterRun) = 1
    /\ AllRangesRegistered
    /\ Len(schema.sheets) > 1

\* C22: every regex rule reads the cell it validates, whatever column the
\* cell is in: its formula takes the row and the column of the validated
\* cell and names no fixed cell
C22_RuleReadsValidatedCell ==
    cell.done =>
        /\ RegexRules[cell.rule].row = RowOfCell
        /\ RegexRules[cell.rule].column = ColumnOfCell
        /\ cell.reads = [row |-> cell.row, col |-> cell.col]

\* C22, for the columns A..ZZ of the formula's reference
C22_WithinReference ==
    (cell.done /\ cell.col <= columnOfLabel(<<"Z", "Z">>)) =>
        /\ RegexRules[cell.rule].row = RowOfCell
        /\ RegexRules[cell.rule].column = ColumnOfCell
        /\ cell.reads = [row |-> cell.row, col |-> cell.col]

\* a cell of column ZZ, not in row 2, was validated by reading itself
C22_Witness ==
    /\ cell.done
    /\ cell.rule = "folioRule"
    /\ cell.row = 3
    /\ cell.col = 702
    /\ cell.reads = [row |-> 3, col |-> 702]

\* beyond ZZ the formula is an error
C22_BeyondReference ==
    (cell.done /\ cell.col > columnOfLabel(<<"Z", "Z">>)) =>
        cell.reads = RefError

====
